---- MODULE Spec2Model ----
(***************************************************************************)
(* Model of the map-data pipeline of the Viimsi Parish game client:        *)
(*   - MapDataManager (MapDataManager.js): loadMapData single-flight       *)
(*     loading, coordinate transform, entity transforms, dispose;          *)
(*   - ViimsiMapLoader (ViimsiMapLoader.js): the four cached dataset        *)
(*     fetches, their fallbacks, and the loadViimsiData aggregation.       *)
(*                                                                         *)
(* Numbers.  JavaScript doubles are modelled in fixed point:               *)
(*   latitude / longitude   in units of 1e-4 degree (all literals of the   *)
(*                          source have four decimals),                    *)
(*   normalised coordinates in units of 1/NormScale,                       *)
(*   game-world coordinates in units of 1/MilliPerUnit world unit.         *)
(* Every division rounds down, which is coarser than the rounding of a     *)
(* double, so the numeric error of the model bounds that of the code.      *)
(* Time is in milliseconds, as returned by Date.now().                     *)
(***************************************************************************)
EXTENDS Integers, Sequences, FiniteSets, TLC

VARIABLES
    \* ---- MapDataManager ----
    isLoading,      \* this.isLoading
    mapData,        \* this.mapData: Null or a snapshot record
    pc,             \* caller -> "idle" | "loading" | "waiting" | "done"
    result,         \* caller -> how its loadMapData() promise settled
    loadSeq,        \* number of mapLoader.loadViimsiData() calls made so far
    myLoad,         \* caller -> the loader call it made itself (0: none)
    joined,         \* caller -> the in-flight load it found when it called (0: none)
    disposedQuiet,  \* dispose() has run and no loadMapData() call was issued since
    \* ---- ViimsiMapLoader ----
    cache,          \* this.cache: dataset -> NoEntry or [data, timestamp]
    now,            \* Date.now()
    ticks,          \* number of clock advances so far
    fetch,          \* dataset -> state of the current fetch<Dataset>Data() call
    agg,            \* state of the current loadViimsiData() call
    held,           \* what a caller kept of an earlier loadViimsiData() call
    \* ---- coordinate transform, applied to one input point ----
    geoIn,          \* the (lat, lon) given to realWorldToGameWorld
    gamePt,         \* its image in the game world
    geoOut,         \* gameWorldToRealWorld of that image
    stage,          \* "in" | "game" | "back"
    \* ---- TerrainSystem ----
    tpc,            \* how far initialize() got
    heightmapData,  \* this.heightmapData
    lodMeshes,      \* this.lodMeshes
    currentLOD,     \* this.currentLOD
    terrainMesh,    \* this.terrainMesh: NoMesh or the index of a LOD mesh
    lodSwitches,    \* this.stats.lodSwitches
    disposed,       \* TerrainSystem.dispose() has run
    lodCall,        \* the last updateLOD / switchLOD call and what it found
    \* ---- queries and pure functions, applied to one input ----
    query,          \* the last spatial or height query and its answer
    sample,         \* the input of sampleHeightmap and its value
    est,            \* the input of the loader's estimators and their values
    xform,          \* the input of transformBuildingData and its value
    info            \* the last getLocationInfo call and what it returned

mgrVars    == <<isLoading, mapData, pc, result, loadSeq, myLoad, joined, disposedQuiet>>
loaderVars == <<cache, now, ticks, fetch, agg, held>>
coordVars  == <<geoIn, gamePt, geoOut, stage>>
terrainVars == <<tpc, heightmapData, lodMeshes, currentLOD, terrainMesh,
                 lodSwitches, disposed, lodCall>>
auxVars    == <<terrainVars, query, sample, est, xform, info>>
vars       == <<mgrVars, loaderVars, coordVars, auxVars>>

----------------------------------------------------------------------------
(* Bounds of the model *)

NumCallers == 3     \* loadMapData() calls issued in one behaviour
MaxTicks   == 2     \* clock advances in one behaviour
MaxLoaderCalls == 3 \* loadViimsiData() calls in one behaviour
GridSteps  == 40    \* sample points per axis of the bounding box

Callers == 1..NumCallers

----------------------------------------------------------------------------
(* ViimsiMapLoader constructor: bounding box, in 1e-4 degree *)

North == 595167
South == 594167
East  == 248333
West  == 247000

viimsiParishBounds == [north |-> North, south |-> South, east |-> East, west |-> West]

(* MapDataManager constructor *)
gameWorldSize == 2000

(* Fixed-point resolutions *)
NormScale    == 1000 * 1000
MilliPerUnit == 10 * 100

Null == [kind |-> "null"]

----------------------------------------------------------------------------
(* MapDataManager.realWorldToGameWorld / gameWorldToRealWorld *)

(* a variant of the inverse that scales the latitude by the longitude span *)
gameWorldToRealWorldSwapped(x, z) ==
    LET normalizedX == (x * (NormScale \div MilliPerUnit)) \div gameWorldSize
                           + NormScale \div 2
        normalizedZ == (z * (NormScale \div MilliPerUnit)) \div gameWorldSize
                           + NormScale \div 2
        lon == West + (normalizedX * (East - West)) \div NormScale
        lat == South + (normalizedZ * (East - West)) \div NormScale
    IN  [lat |-> lat, lon |-> lon]

realWorldToGameWorld(lat, lon) ==
    LET normalizedX == ((lon - West) * NormScale) \div (East - West)
        normalizedZ == ((lat - South) * NormScale) \div (North - South)
        gameX == ((normalizedX - NormScale \div 2) * gameWorldSize)
                     \div (NormScale \div MilliPerUnit)
        gameZ == ((normalizedZ - NormScale \div 2) * gameWorldSize)
                     \div (NormScale \div MilliPerUnit)
    IN  [x |-> gameX, z |-> gameZ]

gameWorldToRealWorld(x, z) ==
    LET normalizedX == (x * (NormScale \div MilliPerUnit)) \div gameWorldSize
                           + NormScale \div 2
        normalizedZ == (z * (NormScale \div MilliPerUnit)) \div gameWorldSize
                           + NormScale \div 2
        lon == West + (normalizedX * (East - West)) \div NormScale
        lat == South + (normalizedZ * (North - South)) \div NormScale
    IN  [lat |-> lat, lon |-> lon]

----------------------------------------------------------------------------
(* Built-in datasets of ViimsiMapLoader, and the provider data used by the  *)
(* repository's tests.  Coordinates in 1e-4 degree.                         *)

generateFallbackBuildings ==
    << [name |-> "Viimsi Manor",        lat |-> 594833, lon |-> 247667, height |-> 12,
        geometry |-> <<>>],
       [name |-> "Viimsi Gymnasium",    lat |-> 594900, lon |-> 247700, height |-> 8,
        geometry |-> <<>>],
       [name |-> "Muuga Harbor Office", lat |-> 594700, lon |-> 248100, height |-> 15,
        geometry |-> <<>>] >>

generateRealisticViimsiBuildings ==
    << [name |-> "Viimsi Manor",             lat |-> 594833, lon |-> 247667, height |-> 12,
        geometry |-> <<>>],
       [name |-> "Viimsi Gymnasium",         lat |-> 594900, lon |-> 247700, height |-> 8,
        geometry |-> <<>>],
       [name |-> "Muuga Harbor Office",      lat |-> 594700, lon |-> 248100, height |-> 15,
        geometry |-> <<>>],
       [name |-> "Viimsi Parish Government", lat |-> 594850, lon |-> 247650, height |-> 10,
        geometry |-> <<>>],
       [name |-> "Haabneeme Beach House",    lat |-> 595000, lon |-> 247800, height |-> 6,
        geometry |-> <<>>] >>

generateRealisticViimsiRoads ==
    << [name |-> "Viimsi tee", type |-> "primary",
        geometry |-> << [lat |-> 594800, lon |-> 247600],
                        [lat |-> 594850, lon |-> 247650],
                        [lat |-> 594900, lon |-> 247700] >>],
       [name |-> "Muuga tee", type |-> "secondary",
        geometry |-> << [lat |-> 594750, lon |-> 248000],
                        [lat |-> 594700, lon |-> 248100] >>],
       [name |-> "Haabneeme tee", type |-> "residential",
        geometry |-> << [lat |-> 594950, lon |-> 247750],
                        [lat |-> 595000, lon |-> 247800] >>],
       [name |-> "Prangli Ferry Route", type |-> "ferry",
        geometry |-> << [lat |-> 595100, lon |-> 247900],
                        [lat |-> 595200, lon |-> 248200] >>] >>

(* What the Overpass provider answers in the tests, after processOSM*. *)
osmBuildings ==
    << [name |-> "Test House", lat |-> 595000, lon |-> 248000, height |-> 6,
        geometry |-> << [lat |-> 595000, lon |-> 248000] >>],
       [name |-> "Building",   lat |-> 594900, lon |-> 247900, height |-> 12,
        geometry |-> << [lat |-> 594900, lon |-> 247900] >>] >>

osmRoads ==
    << [name |-> "Viimsi Road", type |-> "primary",
        geometry |-> << [lat |-> 595000, lon |-> 248000],
                        [lat |-> 594900, lon |-> 247900] >>] >>

osmForests ==
    << [name |-> "Test Forest",
        bounds |-> [north |-> 595000, south |-> 594800, east |-> 248200, west |-> 247800]] >>

(* A denser Overpass answer: six buildings and four roads around one point *)
(* of a village street, in the order the provider lists them.              *)
osmDenseBuildings ==
    << [name |-> "Street 8",  lat |-> 594740, lon |-> 247700, height |-> 6, geometry |-> <<>>],
       [name |-> "Street 6",  lat |-> 594730, lon |-> 247700, height |-> 6, geometry |-> <<>>],
       [name |-> "Street 4",  lat |-> 594720, lon |-> 247700, height |-> 6, geometry |-> <<>>],
       [name |-> "Street 2",  lat |-> 594710, lon |-> 247700, height |-> 6, geometry |-> <<>>],
       [name |-> "Street 9",  lat |-> 594745, lon |-> 247700, height |-> 8, geometry |-> <<>>],
       [name |-> "Street 1",  lat |-> 594700, lon |-> 247700, height |-> 8, geometry |-> <<>>] >>

osmDenseRoads ==
    << [name |-> "North lane", type |-> "residential",
        geometry |-> << [lat |-> 594720, lon |-> 247700], [lat |-> 594900, lon |-> 247700] >>],
       [name |-> "Mill lane", type |-> "residential",
        geometry |-> << [lat |-> 594715, lon |-> 247700], [lat |-> 594715, lon |-> 248200] >>],
       [name |-> "Shore path", type |-> "footway",
        geometry |-> << [lat |-> 594710, lon |-> 247700], [lat |-> 594710, lon |-> 247100] >>],
       [name |-> "Street", type |-> "tertiary",
        geometry |-> << [lat |-> 594700, lon |-> 247700], [lat |-> 594500, lon |-> 247700] >>] >>

(* The raster of the GeoTIFF answer (a 2 x 2 raster, as in the tests). *)
geotiffRaster == <<1, 2, 3, 4>>

----------------------------------------------------------------------------
(* Values a dataset of the raw map data can take.  A list or raster is      *)
(* named by where it came from (src) and, for provider answers and for the  *)
(* Math.random() jitter of the procedural heightmap, which answer it is     *)
(* (ver).                                                                   *)

Undefined == [kind |-> "undefined"]

DataValue(src, ver) == [kind |-> "data", src |-> src, ver |-> ver]

BuildingItems(dv) ==
    CASE dv.src = "osm" /\ dv.ver = 2 -> osmDenseBuildings
      [] dv.src = "osm"       -> osmBuildings
      [] dv.src = "landmarks" -> generateFallbackBuildings
      [] dv.src = "realistic" -> generateRealisticViimsiBuildings
      [] OTHER                -> <<>>

RoadItems(dv) ==
    CASE dv.src = "osm" /\ dv.ver = 2 -> osmDenseRoads
      [] dv.src = "osm"           -> osmRoads
      [] dv.src = "builtinRoads"  -> generateRealisticViimsiRoads
      [] OTHER                    -> <<>>

ForestItems(dv) ==
    CASE dv.src = "osm" -> osmForests
      [] OTHER          -> <<>>

----------------------------------------------------------------------------
(* MapDataManager: entity transforms *)

Min2(a, b) == IF a <= b THEN a ELSE b
Max2(a, b) == IF a >= b THEN a ELSE b

(* widths in tenths of a game unit *)
getRoadWidth(roadType) ==
    CASE roadType = "motorway"    -> 120
      [] roadType = "trunk"       -> 100
      [] roadType = "primary"     -> 80
      [] roadType = "secondary"   -> 60
      [] roadType = "tertiary"    -> 50
      [] roadType = "residential" -> 40
      [] roadType = "service"     -> 30
      [] roadType = "footway"     -> 15
      [] roadType = "path"        -> 10
      [] OTHER                    -> 40

transformElevationData(elevationData) ==
    IF elevationData.kind # "data" THEN Null ELSE elevationData

(* lat / lon of 0 stand for a missing (falsy) coordinate *)
transformBuilding(building) ==
    LET gameCoords ==
            IF building.lat # 0 /\ building.lon # 0
            THEN realWorldToGameWorld(building.lat, building.lon)
            ELSE IF Len(building.geometry) > 0
            THEN realWorldToGameWorld(building.geometry[1].lat, building.geometry[1].lon)
            ELSE [x |-> 0, z |-> 0]
    IN  [name |-> building.name,
         gamePosition |-> [x |-> gameCoords.x,
                           y |-> IF building.height # 0
                                 THEN (building.height * MilliPerUnit) \div 2
                                 ELSE 3 * MilliPerUnit,
                           z |-> gameCoords.z],
         gameHeight |-> IF building.height # 0 THEN building.height ELSE 6,
         realWorldCoords |-> [lat |-> building.lat, lon |-> building.lon]]

(* A faulty variant of transformBuildingData that leaves out the buildings  *)
(* it has neither coordinates nor a geometry for.                           *)
transformBuildingDataDropping(buildings) ==
    LET Placeable(building) ==
            (building.lat # 0 /\ building.lon # 0) \/ Len(building.geometry) > 0
        kept == SelectSeq(buildings, Placeable)
    IN  [i \in 1..Len(kept) |-> transformBuilding(kept[i])]

transformBuildingData(buildings) ==
    [i \in 1..Len(buildings) |-> transformBuilding(buildings[i])]

transformRoad(road) ==
    [name |-> road.name,
     type |-> road.type,
     gameGeometry |->
        [j \in 1..Len(road.geometry) |->
            LET gameCoords == realWorldToGameWorld(road.geometry[j].lat, road.geometry[j].lon)
            IN  [x |-> gameCoords.x, z |-> gameCoords.z,
                 realLat |-> road.geometry[j].lat, realLon |-> road.geometry[j].lon]],
     width |-> getRoadWidth(road.type)]

transformRoadData(roads) ==
    [i \in 1..Len(roads) |-> transformRoad(roads[i])]

transformForest(forest) ==
    LET gameNorthWest == realWorldToGameWorld(forest.bounds.north, forest.bounds.west)
        gameSouthEast == realWorldToGameWorld(forest.bounds.south, forest.bounds.east)
    IN  [name |-> forest.name,
         gameBounds |-> [minX |-> Min2(gameNorthWest.x, gameSouthEast.x),
                         maxX |-> Max2(gameNorthWest.x, gameSouthEast.x),
                         minZ |-> Min2(gameNorthWest.z, gameSouthEast.z),
                         maxZ |-> Max2(gameNorthWest.z, gameSouthEast.z)],
         realWorldBounds |-> forest.bounds]

transformForestData(forests) ==
    [i \in 1..Len(forests) |-> transformForest(forests[i])]

gameWorldBounds ==
    [minX |-> -1000 * MilliPerUnit, maxX |-> 1000 * MilliPerUnit,
     minZ |-> -1000 * MilliPerUnit, maxZ |-> 1000 * MilliPerUnit]

----------------------------------------------------------------------------
(* MapDataManager.loadMapData *)

(* What mapLoader.loadViimsiData() can resolve with for the id-th call:     *)
(* the elevation is absent, decoded from the provider or procedural; the   *)
(* three lists, all fetched from the one Overpass endpoint, are the        *)
(* provider's or the built-in ones.  Undefined buildings stand for a       *)
(* malformed answer, on which transformBuildingData throws                 *)
(* (buildings.length of undefined).                                        *)
RawLists ==
    { [buildings |-> DataValue("osm", 1), roads |-> DataValue("osm", 1),
       forests |-> DataValue("osm", 1)],
      [buildings |-> DataValue("landmarks", 0), roads |-> DataValue("builtinRoads", 0),
       forests |-> DataValue("empty", 0)],
      [buildings |-> Undefined, roads |-> DataValue("osm", 1),
       forests |-> DataValue("osm", 1)] }

RawMapDataSet(id) ==
    { [elevation |-> e, buildings |-> l.buildings, roads |-> l.roads,
       forests |-> l.forests, bounds |-> viimsiParishBounds, timestamp |-> id] :
        e \in {Null, DataValue("geotiff", 1), DataValue("geotiff", 2),
              DataValue("procedural", 1)},
        l \in RawLists }

(* What loadViimsiData() can resolve with where the provider knows the      *)
(* village street as well.                                                  *)
DenseRawMapDataSet(id) ==
    RawMapDataSet(id) \cup
    { [elevation |-> e, buildings |-> DataValue("osm", 2), roads |-> DataValue("osm", 2),
       forests |-> DataValue("osm", 1), bounds |-> viimsiParishBounds, timestamp |-> id] :
        e \in {Null, DataValue("geotiff", 1)} }

TransformThrows(raw) == raw.buildings.kind # "data"

(* The object literal of loadMapData; every field carries the load it was  *)
(* built from.                                                             *)
BuildSnapshot(raw, id) ==
    [kind      |-> "snapshot",
     elevation |-> [load |-> id, val |-> transformElevationData(raw.elevation)],
     buildings |-> [load |-> id, val |-> transformBuildingData(BuildingItems(raw.buildings))],
     roads     |-> [load |-> id, val |-> transformRoadData(RoadItems(raw.roads))],
     forests   |-> [load |-> id, val |-> transformForestData(ForestItems(raw.forests))],
     bounds    |-> raw.bounds,
     gameWorldBounds |-> gameWorldBounds,
     timestamp |-> raw.timestamp]

(* Faulty variants of MapDataAfterLoad: one stores what had been           *)
(* transformed when the transform threw, the other updates the held        *)
(* snapshot field by field and leaves the forests of the previous load.    *)
MapDataAfterLoadPartial(prev, raw, id) ==
    IF TransformThrows(raw)
    THEN BuildSnapshot([raw EXCEPT !.buildings = DataValue("empty", 0)], id)
    ELSE BuildSnapshot(raw, id)

MapDataAfterLoadFieldwise(prev, raw, id) ==
    IF TransformThrows(raw) THEN prev
    ELSE IF prev.kind = "snapshot"
         THEN [BuildSnapshot(raw, id) EXCEPT !.forests = prev.forests]
         ELSE BuildSnapshot(raw, id)

(* this.mapData after the try block ran on the loader's answer: the        *)
(* assignment happens only once the whole literal has been evaluated.      *)
MapDataAfterLoad(prev, raw, id) ==
    IF TransformThrows(raw) THEN prev ELSE BuildSnapshot(raw, id)

(* the finally block *)
FinallyIsLoading == FALSE

NoResult         == [kind |-> "none"]
Resolved(value)  == [kind |-> "resolved", value |-> value]
Rejected(id, by) == [kind |-> "rejected", error |-> [load |-> id, cause |-> by]]

(* the waiting branch: return this.mapData *)
WaitingResult(md) == Resolved(md)

(* Loads are numbered in the order they start; the numbers stop growing at *)
(* NumCallers, which one call by every caller does not exceed.             *)
NextLoadId(n) == IF n < NumCallers THEN n + 1 ELSE n

(* loadMapData() up to its first await *)
LoadMapDataCall(c) ==
    /\ pc[c] = "idle"
    /\ IF isLoading
       THEN /\ pc' = [pc EXCEPT ![c] = "waiting"]
            /\ joined' = [joined EXCEPT ![c] = loadSeq]
            /\ UNCHANGED <<isLoading, loadSeq, myLoad>>
       ELSE /\ isLoading' = TRUE
            /\ loadSeq' = NextLoadId(loadSeq)
            /\ myLoad' = [myLoad EXCEPT ![c] = NextLoadId(loadSeq)]
            /\ pc' = [pc EXCEPT ![c] = "loading"]
            /\ UNCHANGED joined
    /\ disposedQuiet' = FALSE
    /\ UNCHANGED <<mapData, result>>
    /\ UNCHANGED <<loaderVars, coordVars, auxVars>>

(* loadViimsiData() resolved with one of raws: transform, publish, return   *)
(* (or throw)                                                               *)
LoadResolvedFrom(c, raws) ==
    /\ pc[c] = "loading"
    /\ \E raw \in raws :
          /\ mapData' = MapDataAfterLoad(mapData, raw, myLoad[c])
          /\ result' = [result EXCEPT ![c] =
                           IF TransformThrows(raw)
                           THEN Rejected(myLoad[c], "transform")
                           ELSE Resolved(mapData')]
    /\ isLoading' = FinallyIsLoading
    /\ pc' = [pc EXCEPT ![c] = "done"]
    /\ UNCHANGED <<loadSeq, myLoad, joined, disposedQuiet>>
    /\ UNCHANGED <<loaderVars, coordVars, auxVars>>

LoadResolved(c) == LoadResolvedFrom(c, RawMapDataSet(myLoad[c]))

(* loadViimsiData() rejected: catch rethrows, finally clears the flag *)
LoadRejected(c) ==
    /\ pc[c] = "loading"
    /\ result' = [result EXCEPT ![c] = Rejected(myLoad[c], "loader")]
    /\ isLoading' = FinallyIsLoading
    /\ pc' = [pc EXCEPT ![c] = "done"]
    /\ UNCHANGED <<mapData, loadSeq, myLoad, joined, disposedQuiet>>
    /\ UNCHANGED <<loaderVars, coordVars, auxVars>>

(* a 10 ms poll of the waiting branch that finds the flag cleared *)
WaitingReturn(c) ==
    /\ pc[c] = "waiting"
    /\ ~isLoading
    /\ result' = [result EXCEPT ![c] = WaitingResult(mapData)]
    /\ pc' = [pc EXCEPT ![c] = "done"]
    /\ UNCHANGED <<isLoading, mapData, loadSeq, myLoad, joined, disposedQuiet>>
    /\ UNCHANGED <<loaderVars, coordVars, auxVars>>

(* a caller whose call has settled gets ready to call loadMapData() again *)
CallAgain(c) ==
    /\ pc[c] = "done"
    /\ pc' = [pc EXCEPT ![c] = "idle"]
    /\ result' = [result EXCEPT ![c] = NoResult]
    /\ myLoad' = [myLoad EXCEPT ![c] = 0]
    /\ joined' = [joined EXCEPT ![c] = 0]
    /\ UNCHANGED <<isLoading, mapData, loadSeq, disposedQuiet>>
    /\ UNCHANGED <<loaderVars, coordVars, auxVars>>

----------------------------------------------------------------------------
(* ViimsiMapLoader: cache *)

Datasets == {"elevation", "buildings", "roads", "forests"}

NoEntry == [kind |-> "none"]

clearCache == [d \in Datasets |-> NoEntry]

cacheTimeout == 30 * 60 * 1000

Entry(data, timestamp) == [kind |-> "entry", data |-> data, timestamp |-> timestamp]

(* a variant that still accepts an entry whose age equals the timeout *)
isCacheValidInclusive(entry, t) ==
    /\ entry.kind = "entry"
    /\ t - entry.timestamp <= cacheTimeout

isCacheValid(entry, t) ==
    /\ entry.kind = "entry"
    /\ t - entry.timestamp < cacheTimeout

----------------------------------------------------------------------------
(* ViimsiMapLoader: the four dataset fetches *)

(* How the provider call of one fetch ends. *)
Outcomes == {"ok", "networkError", "badStatus", "decodeError"}

(* The provider's answer (ver 1) does not change during a behaviour; the   *)
(* Math.random() jitter of generateFallbackElevation makes the heightmap   *)
(* of each loadViimsiData() call its own (ver: the number of the call).    *)
ProviderVersion == {1}

Fulfilled(value)  == [status |-> "fulfilled", value |-> value]
RejectedPromise   == [status |-> "rejected", value |-> Undefined]

generateFallbackElevation(jitter) == DataValue("procedural", jitter)

(* fetchOSMBuildings: its own try/catch answers every failure with the     *)
(* landmark list, so it never rejects.                                     *)
fetchOSMBuildings(outcome, v) ==
    IF outcome = "ok" THEN Fulfilled(DataValue("osm", v))
    ELSE Fulfilled(DataValue("landmarks", 0))

(* The first definition of fetchOSMRoads in the class body (lines 307-341) *)
(* answers a failure with []; the second one replaces it.                  *)
fetchOSMRoadsFirst(outcome, v) ==
    IF outcome = "ok" THEN Fulfilled(DataValue("osm", v))
    ELSE Fulfilled(DataValue("empty", 0))

(* fetchOSMRoads: the definition in force is the last one of the class     *)
(* body (lines 680-705), which has no try/catch.                           *)
fetchOSMRoads(outcome, v) ==
    IF outcome = "ok" THEN Fulfilled(DataValue("osm", v))
    ELSE RejectedPromise

(* processElevationImage: a decode failure is answered with the procedural *)
(* heightmap.                                                              *)
processElevationImage(outcome, v, jitter) ==
    IF outcome = "decodeError" THEN Fulfilled(generateFallbackElevation(jitter))
    ELSE Fulfilled(DataValue("geotiff", v))

(* The part of fetch<Dataset>Data after the cache miss: what the call       *)
(* settles with, and whether it wrote the cache entry (write).             *)
Settled(promise, write) == [status |-> promise.status, value |-> promise.value, write |-> write]

fetchElevationData(outcome, v, jitter) ==
    IF outcome \in {"networkError", "badStatus"}
    THEN Settled(Fulfilled(generateFallbackElevation(jitter)), FALSE)
    ELSE LET elevationData == processElevationImage(outcome, v, jitter)
         IN  IF elevationData.status = "fulfilled"
             THEN Settled(elevationData, TRUE)
             ELSE Settled(Fulfilled(generateFallbackElevation(jitter)), FALSE)

fetchBuildingData(outcome, v) ==
    LET buildings == fetchOSMBuildings(outcome, v)
    IN  IF buildings.status = "fulfilled"
        THEN Settled(buildings, TRUE)
        ELSE Settled(Fulfilled(DataValue("realistic", 0)), FALSE)

fetchRoadData(outcome, v) ==
    LET roads == fetchOSMRoads(outcome, v)
    IN  IF roads.status = "fulfilled"
        THEN Settled(roads, TRUE)
        ELSE Settled(Fulfilled(DataValue("builtinRoads", 0)), FALSE)

(* a variant whose catch block returns nothing *)
fetchForestDataNoFallback(outcome, v) ==
    IF outcome = "ok"
    THEN Settled(Fulfilled(DataValue("osm", v)), TRUE)
    ELSE Settled(Fulfilled(Undefined), FALSE)

fetchForestData(outcome, v) ==
    IF outcome = "ok"
    THEN Settled(Fulfilled(DataValue("osm", v)), TRUE)
    ELSE Settled(Fulfilled(DataValue("empty", 0)), FALSE)

FetchAfterMiss(d, outcome, v, jitter) ==
    CASE d = "elevation" -> fetchElevationData(outcome, v, jitter)
      [] d = "buildings" -> fetchBuildingData(outcome, v)
      [] d = "roads"     -> fetchRoadData(outcome, v)
      [] d = "forests"   -> fetchForestData(outcome, v)

(* State of one fetch<Dataset>Data() call.  network: the provider was     *)
(* called; failed: the provider call or the decoding failed.               *)
IdleFetch ==
    [pc |-> "idle", status |-> "none", value |-> Undefined,
     network |-> FALSE, failed |-> FALSE]

(* fetch<Dataset>Data() up to its first await: the cache check *)
FetchCall(d, t) ==
    IF isCacheValid(cache[d], t)
    THEN [pc |-> "done", status |-> "fulfilled", value |-> cache[d].data,
          network |-> FALSE, failed |-> FALSE]
    ELSE [pc |-> "inflight", status |-> "none", value |-> Undefined,
          network |-> TRUE, failed |-> FALSE]

(* loadViimsiData() up to its await: starts the four fetches *)
LoadViimsiDataCall ==
    /\ agg.pc \in {"idle", "done"}
    /\ agg.n < MaxLoaderCalls
    /\ fetch' = [d \in Datasets |-> FetchCall(d, now)]
    /\ agg' = [pc |-> "waiting", n |-> agg.n + 1, result |-> NoResult]
    /\ UNCHANGED <<cache, now, ticks, held>>
    /\ UNCHANGED <<mgrVars, coordVars, auxVars>>

(* the provider call of one fetch ends; the fetch settles *)
FetchSettle(d) ==
    /\ fetch[d].pc = "inflight"
    /\ \E outcome \in Outcomes, v \in ProviderVersion :
          LET r == FetchAfterMiss(d, outcome, v, agg.n)
          IN  /\ fetch' = [fetch EXCEPT ![d] =
                             [@ EXCEPT !.pc = "done", !.status = r.status,
                                       !.value = r.value,
                                       !.failed = (outcome # "ok")]]
              /\ cache' = IF r.write
                          THEN [cache EXCEPT ![d] = Entry(r.value, now)]
                          ELSE cache
    /\ UNCHANGED <<now, ticks, agg, held>>
    /\ UNCHANGED <<mgrVars, coordVars, auxVars>>

(* the object built from the Promise.allSettled results *)
Aggregate(f, t) ==
    [elevation |-> IF f["elevation"].status = "fulfilled"
                   THEN f["elevation"].value ELSE Null,
     buildings |-> IF f["buildings"].status = "fulfilled"
                   THEN f["buildings"].value ELSE DataValue("empty", 0),
     roads     |-> IF f["roads"].status = "fulfilled"
                   THEN f["roads"].value ELSE DataValue("empty", 0),
     forests   |-> IF f["forests"].status = "fulfilled"
                   THEN f["forests"].value ELSE DataValue("empty", 0),
     bounds    |-> viimsiParishBounds,
     timestamp |-> t]

(* The log statement after the aggregation reads value.length of every    *)
(* fulfilled list; on a value that is no array it throws, and the catch    *)
(* block rejects the call.                                                 *)
AggregationThrows(f) ==
    \E d \in {"buildings", "roads", "forests"} :
        f[d].status = "fulfilled" /\ f[d].value.kind # "data"

(* all four fetches have settled: loadViimsiData() returns *)
LoadViimsiDataReturn ==
    /\ agg.pc = "waiting"
    /\ \A d \in Datasets : fetch[d].pc = "done"
    /\ agg' = [agg EXCEPT !.pc = "done",
                          !.result = IF AggregationThrows(fetch)
                                     THEN Rejected(agg.n, "aggregation")
                                     ELSE Resolved(Aggregate(fetch, now))]
    /\ UNCHANGED <<cache, now, ticks, fetch, held>>
    /\ UNCHANGED <<mgrVars, coordVars, auxVars>>

(* A caller of loadViimsiData() keeps the value the call returned, with the *)
(* cache as it was then, to compare it with what the next call returns.     *)
NothingHeld == [n |-> 0, result |-> NoResult, cache |-> clearCache]

KeepResult ==
    /\ agg.pc = "done"
    /\ held.n # agg.n
    /\ held' = [n |-> agg.n, result |-> agg.result, cache |-> cache]
    /\ UNCHANGED <<cache, now, ticks, fetch, agg>>
    /\ UNCHANGED <<mgrVars, coordVars, auxVars>>

(* ViimsiMapLoader.clearCache, called directly *)
ClearCache ==
    /\ cache' = clearCache
    /\ UNCHANGED <<now, ticks, fetch, agg, held>>
    /\ UNCHANGED <<mgrVars, coordVars, auxVars>>

(* time passes *)
TickSteps == {1, cacheTimeout - 1}

Tick ==
    /\ ticks < MaxTicks
    /\ \E delta \in TickSteps : now' = now + delta
    /\ ticks' = ticks + 1
    /\ UNCHANGED <<cache, fetch, agg, held>>
    /\ UNCHANGED <<mgrVars, coordVars, auxVars>>

(* MapDataManager.dispose *)
Dispose ==
    /\ cache' = clearCache
    /\ mapData' = Null
    /\ disposedQuiet' = TRUE
    /\ UNCHANGED <<isLoading, pc, result, loadSeq, myLoad, joined>>
    /\ UNCHANGED <<now, ticks, fetch, agg, held, coordVars, auxVars>>

----------------------------------------------------------------------------
(* TerrainSystem: configuration, in whole game units *)

worldSize    == 1000
heightScale  == 100
lodLevels    == 2
lodDistances == <<1000, 2000>>
lodSegments  == <<64, 32>>

(* u and v, the normalised heightmap coordinates, are in units of 1/UVScale; *)
(* a height is an integer number of 1/HeightDen game units, which is exact  *)
(* for the bilinear blend of integer raster values.                         *)
UVScale   == 600
HeightDen == UVScale * UVScale

(* Rasters.  The GeoTIFF answers are 2 x 2 rasters as in the tests, the     *)
(* second one (a blank image) all zero; the procedural heightmap is         *)
(* generateFallbackElevation with size 4 and the noise term left out,       *)
(* rounded to whole metres.                                                 *)
flatRaster == <<0, 0, 0, 0>>

fallbackRaster ==
    << 0, 0, 0, 1,
       0, 6, 7, 7,
       0, 6, 13, 13,
       0, 6, 13, 19 >>

ElevationItems(dv) ==
    CASE dv.src = "geotiff" /\ dv.ver = 1 -> geotiffRaster
      [] dv.src = "geotiff"               -> flatRaster
      [] OTHER                            -> fallbackRaster

(* Math.sqrt(heightmapData.length) *)
heightmapSize(data) == CHOOSE s \in 0..Len(data) : s * s = Len(data)

(* heightmapData[i] || 0 *)
HeightmapEntry(data, i) == IF i \in 0..(Len(data) - 1) THEN data[i + 1] ELSE 0

(* A faulty variant of sampleHeightmap that does not clamp u and v. *)
sampleHeightmapUnclamped(data, u, v, size) ==
    LET x   == u * (size - 1)
        y   == v * (size - 1)
        x0  == x \div UVScale
        y0  == y \div UVScale
        x1  == Min2(x0 + 1, size - 1)
        y1  == Min2(y0 + 1, size - 1)
        fx  == x - x0 * UVScale
        fy  == y - y0 * UVScale
        h00 == HeightmapEntry(data, y0 * size + x0)
        h10 == HeightmapEntry(data, y0 * size + x1)
        h01 == HeightmapEntry(data, y1 * size + x0)
        h11 == HeightmapEntry(data, y1 * size + x1)
        h0  == h00 * (UVScale - fx) + h10 * fx
        h1  == h01 * (UVScale - fx) + h11 * fx
    IN  h0 * (UVScale - fy) + h1 * fy

(* sampleHeightmap(u, v, size) on this.heightmapData = data; the value is   *)
(* in 1/HeightDen.                                                          *)
sampleHeightmap(data, u, v, size) ==
    LET uc  == Max2(0, Min2(UVScale, u))
        vc  == Max2(0, Min2(UVScale, v))
        x   == uc * (size - 1)
        y   == vc * (size - 1)
        x0  == x \div UVScale
        y0  == y \div UVScale
        x1  == Min2(x0 + 1, size - 1)
        y1  == Min2(y0 + 1, size - 1)
        fx  == x - x0 * UVScale
        fy  == y - y0 * UVScale
        h00 == HeightmapEntry(data, y0 * size + x0)
        h10 == HeightmapEntry(data, y0 * size + x1)
        h01 == HeightmapEntry(data, y1 * size + x0)
        h11 == HeightmapEntry(data, y1 * size + x1)
        h0  == h00 * (UVScale - fx) + h10 * fx
        h1  == h01 * (UVScale - fx) + h11 * fx
    IN  h0 * (UVScale - fy) + h1 * fy

(* (x + worldSize / 2) / worldSize for a world coordinate in 1/MilliPerUnit *)
TerrainUV(x) ==
    ((x + (worldSize * MilliPerUnit) \div 2) * UVScale) \div (worldSize * MilliPerUnit)

(* A faulty variant of getHeightAt that answers with the placeholder        *)
(* surface when there is no raster.                                         *)
getHeightAtPlaceholder(hd, x, z) ==
    IF hd = Null THEN 150 * HeightDen
    ELSE sampleHeightmap(ElevationItems(hd), TerrainUV(x), TerrainUV(z),
                         heightmapSize(ElevationItems(hd))) * heightScale

(* getHeightAt(x, z) with this.heightmapData = hd *)
getHeightAt(hd, x, z) ==
    IF hd = Null THEN 0
    ELSE sampleHeightmap(ElevationItems(hd), TerrainUV(x), TerrainUV(z),
                         heightmapSize(ElevationItems(hd))) * heightScale

getWorldBounds ==
    [minX |-> -((worldSize * MilliPerUnit) \div 2), maxX |-> (worldSize * MilliPerUnit) \div 2,
     minZ |-> -((worldSize * MilliPerUnit) \div 2), maxZ |-> (worldSize * MilliPerUnit) \div 2]

----------------------------------------------------------------------------
(* TerrainSystem: mesh generation.                                          *)
(*                                                                          *)
(* THREE.PlaneGeometry(worldSize, worldSize, n - 1, n - 1) has n x n        *)
(* vertices in its local XY plane: vertex (ix, iy) has x = ix * worldSize / *)
(* (n - 1) - worldSize / 2 and z = 0.  applyElevationData reads getX and    *)
(* getZ of a vertex and writes its Y, so the n vertices of column ix all    *)
(* receive the same Y; a mesh holds one Y per column, in 1/HeightDen.       *)

VertexX(segments, ix) ==
    (ix * worldSize * MilliPerUnit) \div (segments - 1) - (worldSize * MilliPerUnit) \div 2

VertexZ == 0

(* The two trigonometric surfaces of applyElevationData at the vertices of  *)
(* a column (z = 0), rounded to 1/HeightDen:                                *)
(*   proceduralTerrain: max(height, 0) of the no-heightmap branch,          *)
(*   flatVariation: proceduralHeight + mountainHeight of the flat branch.   *)
flatVariation64 ==
    << 13734852, 12098138, 9919926, 7370341, 4627352, 1859917,
       -787181, -1205306, -472481, 572548, 1904274, 3460657,
       5154444, 6887216, 8564588, 10110940, 11482054, 12674266,
       13729114, 14732879, 15811000, 17117814, 18822596, 21093257,
       24079298, 27895724, 32609553, 38230311, 44705517, 51921697,
       59710927, 67862349, 73280508, 75717644, 77792589, 79294483,
       80055403, 79961875, 78961419, 77063559, 74335314, 70891690,
       66882186, 62474714, 57838550, 53128029, 48468591, 43946518,
       39603345, 35435412, 31398499, 27416984, 23396486, 19238583,
       14856023, 10186766, 5205306, 787181, -1859917, -4627352,
       -7370341, -9919926, -12098138, -13734852 >>

proceduralTerrain64 ==
    << 14714090, 14271274, 13241104, 11850293, 10332328, 8905061,
       7750664, 6999918, 6722345, 6923103, 7546846, 8488073,
       9606796, 10747849, 11761771, 12525029, 12957451, 13034971,
       12796310, 12342807, 11831321, 11460836, 11454039, 12035677,
       13409833, 15738386, 19122834, 23591343, 29092371, 35495587,
       42600098, 50149262, 56136452, 60257044, 63932984, 66907629,
       68980086, 70020024, 69975900, 68875881, 66821466, 63974533,
       60539164, 56740107, 52800051, 48917976, 45250744, 41899692,
       38903543, 36238229, 33823579, 31536061, 29226213, 26738868,
       23934040, 20706227, 17000082, 12820764, 8237796, 3381958,
       0, 0, 0, 0 >>

flatVariation32 ==
    << 13734852, 9842525, 4447841, -1032585, -355054, 2142158,
       5489858, 8927371, 11805986, 14020903, 16199568, 19555253,
       25453260, 34857824, 47881590, 63624214, 74569334, 78699055,
       80109918, 77901578, 72186683, 63929465, 54495226, 45097239,
       36362952, 28187561, 19922358, 10806667, 1032585, -4447841,
       -9842525, -13734852 >>

proceduralTerrain32 ==
    << 14714090, 13200608, 10235334, 7658773, 6721974, 7680527,
       9830752, 11959687, 13010999, 12680788, 11685963, 11581857,
       14190925, 20865871, 31882968, 46214877, 58301252, 65665419,
       69714774, 69421978, 65063304, 57991457, 50028890, 42730936,
       36814506, 31975700, 27158183, 21148994, 13244453, 3700149,
       0, 0 >>

proceduralTerrain(segments) ==
    IF segments = 64 THEN proceduralTerrain64 ELSE proceduralTerrain32

flatVariation(segments) ==
    IF segments = 64 THEN flatVariation64 ELSE flatVariation32

SeqMax(s) == CHOOSE m \in {s[i] : i \in 1..Len(s)} : \A i \in 1..Len(s) : s[i] <= m
SeqMin(s) == CHOOSE m \in {s[i] : i \in 1..Len(s)} : \A i \in 1..Len(s) : s[i] >= m

(* the heights of the first loop of the heightmap branch *)
scaledHeight(hd, segments) ==
    [i \in 1..segments |->
        sampleHeightmap(ElevationItems(hd), TerrainUV(VertexX(segments, i - 1)),
                        TerrainUV(VertexZ), heightmapSize(ElevationItems(hd))) * heightScale]

(* the flatness threshold, appliedMaxHeight - appliedMinHeight < 50 *)
TooFlat(heights) == SeqMax(heights) - SeqMin(heights) < 50 * HeightDen

(* applyElevationData(geometry, segments): the Y of every column *)
applyElevationData(hd, segments) ==
    IF hd = Null \/ Len(ElevationItems(hd)) = 0
    THEN proceduralTerrain(segments)
    ELSE LET heights == scaledHeight(hd, segments)
         IN  IF TooFlat(heights)
             THEN [i \in 1..segments |-> heights[i] + flatVariation(segments)[i]]
             ELSE heights

(* generateTerrainMesh(segments, lodLevel) *)
generateTerrainMesh(hd, segments, lodLevel) ==
    [name |-> lodLevel, segments |-> segments, visible |-> TRUE,
     y |-> applyElevationData(hd, segments)]

(* this.lodMeshes after generateTerrainLOD() *)
generateTerrainLOD(hd) ==
    [i \in 1..lodLevels |->
        LET mesh == generateTerrainMesh(hd, lodSegments[i], i - 1)
        IN  [name |-> mesh.name, segments |-> mesh.segments, y |-> mesh.y,
             visible |-> (i - 1 = 0),
             lodLevel |-> i - 1,
             maxDistance |-> lodDistances[i]]]

----------------------------------------------------------------------------
(* TerrainSystem: initialize, LOD switching, dispose *)

MaxSwitches == 3    \* effective updateLOD / switchLOD calls in one behaviour

NoMesh == -1        \* this.terrainMesh = null

(* the caller of loadMapData() that is TerrainSystem.initialize() *)
TerrainCaller == 1

(* cameraPosition: null, or a position at a distance from the terrain      *)
(* centre (cameraPosition.distanceTo(terrainCenter)), in whole game units  *)
CameraDistances == {0, 1000, 1001, 2000, 2001}

Cameras == {Null} \cup {[kind |-> "camera", distance |-> d] : d \in CameraDistances}

(* the argument of a direct switchLOD call: valid and invalid levels *)
SwitchLevels == -1..(lodLevels + 1)

NoCall == [op |-> "none", arg |-> Null, acted |-> FALSE]

(* A faulty variant of newLOD that compares with < . *)
newLODStrict(distance) ==
    LET hits == {i \in 0..(Len(lodDistances) - 1) : distance < lodDistances[i + 1]}
    IN  IF hits = {} THEN lodLevels - 1
        ELSE CHOOSE i \in hits : \A j \in hits : i <= j

(* the level the loop of updateLOD settles on *)
newLOD(distance) ==
    LET hits == {i \in 0..(Len(lodDistances) - 1) : distance <= lodDistances[i + 1]}
    IN  IF hits = {} THEN lodLevels - 1
        ELSE CHOOSE i \in hits : \A j \in hits : i <= j

(* A faulty variant of switchLOD that accepts the level one past the last. *)
switchLODOffByOne(level) ==
    IF level < 0 \/ level > Len(lodMeshes)
    THEN UNCHANGED <<lodMeshes, currentLOD, terrainMesh, lodSwitches>>
    ELSE /\ lodMeshes' = [i \in 1..Len(lodMeshes) |->
                [lodMeshes[i] EXCEPT !.visible =
                    IF i - 1 = level THEN TRUE
                    ELSE IF i - 1 = currentLOD THEN FALSE ELSE @]]
         /\ currentLOD' = level
         /\ terrainMesh' = level
         /\ lodSwitches' = lodSwitches + 1

(* A faulty variant of switchLOD that does not count the switch. *)
switchLODUncounted(level) ==
    IF level < 0 \/ level >= Len(lodMeshes)
    THEN UNCHANGED <<lodMeshes, currentLOD, terrainMesh, lodSwitches>>
    ELSE /\ lodMeshes' = [i \in 1..Len(lodMeshes) |->
                [lodMeshes[i] EXCEPT !.visible =
                    IF i - 1 = level THEN TRUE
                    ELSE IF i - 1 = currentLOD THEN FALSE ELSE @]]
         /\ currentLOD' = level
         /\ terrainMesh' = level
         /\ UNCHANGED lodSwitches

(* switchLOD(newLOD) *)
switchLOD(level) ==
    IF level < 0 \/ level >= Len(lodMeshes)
    THEN UNCHANGED <<lodMeshes, currentLOD, terrainMesh, lodSwitches>>
    ELSE /\ lodMeshes' = [i \in 1..Len(lodMeshes) |->
                [lodMeshes[i] EXCEPT !.visible =
                    IF i - 1 = level THEN TRUE
                    ELSE IF i - 1 = currentLOD THEN FALSE ELSE @]]
         /\ currentLOD' = level
         /\ terrainMesh' = level
         /\ lodSwitches' = lodSwitches + 1

(* initialize() up to its first await: mapDataManager.loadMapData() *)
Initialize ==
    /\ tpc = "constructed"
    /\ LoadMapDataCall(TerrainCaller)

(* loadMapData() resolved: the raster is taken over and initializeTextures() *)
(* runs, up to the second await; a null snapshot makes mapData.elevation    *)
(* throw                                                                    *)
InitializeLoaded ==
    /\ tpc = "constructed"
    /\ pc[TerrainCaller] = "done"
    /\ result[TerrainCaller].kind = "resolved"
    /\ LET md == result[TerrainCaller].value
       IN  IF md = Null
           THEN tpc' = "failed" /\ UNCHANGED heightmapData
           ELSE tpc' = "textured" /\ heightmapData' = md.elevation.val
    /\ UNCHANGED <<lodMeshes, currentLOD, terrainMesh, lodSwitches, disposed, lodCall>>
    /\ UNCHANGED <<query, sample, est, xform, info, mgrVars, loaderVars, coordVars>>

(* loadMapData() rejected: the catch block rethrows *)
InitializeRejected ==
    /\ tpc = "constructed"
    /\ pc[TerrainCaller] = "done"
    /\ result[TerrainCaller].kind = "rejected"
    /\ tpc' = "failed"
    /\ UNCHANGED <<heightmapData, lodMeshes, currentLOD, terrainMesh, lodSwitches,
                   disposed, lodCall>>
    /\ UNCHANGED <<query, sample, est, xform, info, mgrVars, loaderVars, coordVars>>

(* generateTerrainLOD(), up to the third await *)
GenerateTerrainLOD ==
    /\ tpc = "textured"
    /\ lodMeshes' = generateTerrainLOD(heightmapData)
    /\ terrainMesh' = 0
    /\ tpc' = "generated"
    /\ UNCHANGED <<heightmapData, currentLOD, lodSwitches, disposed, lodCall>>
    /\ UNCHANGED <<query, sample, est, xform, info, mgrVars, loaderVars, coordVars>>

(* addToScene() and the rest of initialize() *)
AddToScene ==
    /\ tpc = "generated"
    /\ lodMeshes' = [i \in 1..Len(lodMeshes) |->
                        [lodMeshes[i] EXCEPT !.visible = (i - 1 = 0)]]
    /\ tpc' = "ready"
    /\ UNCHANGED <<heightmapData, currentLOD, terrainMesh, lodSwitches, disposed, lodCall>>
    /\ UNCHANGED <<query, sample, est, xform, info, mgrVars, loaderVars, coordVars>>

(* updateLOD(cameraPosition) *)
UpdateLOD(cameraPosition) ==
    /\ lodSwitches < MaxSwitches
    /\ IF terrainMesh = NoMesh \/ cameraPosition = Null
       THEN UNCHANGED <<lodMeshes, currentLOD, terrainMesh, lodSwitches>>
       ELSE IF newLOD(cameraPosition.distance) # currentLOD
            THEN switchLOD(newLOD(cameraPosition.distance))
            ELSE UNCHANGED <<lodMeshes, currentLOD, terrainMesh, lodSwitches>>
    /\ lodCall' = [op |-> "updateLOD", arg |-> cameraPosition,
                   acted |-> terrainMesh # NoMesh /\ cameraPosition # Null]
    /\ UNCHANGED <<tpc, heightmapData, disposed>>
    /\ UNCHANGED <<query, sample, est, xform, info, mgrVars, loaderVars, coordVars>>

(* switchLOD(level), called directly *)
SwitchLOD(level) ==
    /\ lodSwitches < MaxSwitches
    /\ switchLOD(level)
    /\ lodCall' = [op |-> "switchLOD", arg |-> [kind |-> "level", level |-> level],
                   acted |-> level >= 0 /\ level < Len(lodMeshes)]
    /\ UNCHANGED <<tpc, heightmapData, disposed>>
    /\ UNCHANGED <<query, sample, est, xform, info, mgrVars, loaderVars, coordVars>>

(* TerrainSystem.dispose() *)
TerrainDispose ==
    /\ lodMeshes' = <<>>
    /\ terrainMesh' = NoMesh
    /\ heightmapData' = Null
    /\ disposed' = TRUE
    /\ UNCHANGED <<tpc, currentLOD, lodSwitches, lodCall>>
    /\ UNCHANGED <<query, sample, est, xform, info, mgrVars, loaderVars, coordVars>>

(* the points height queries are made at, in 1/MilliPerUnit *)
TerrainProbes ==
    { [x |-> px * MilliPerUnit, z |-> pz * MilliPerUnit] :
        px \in {-500, -250, 0, 250, 600}, pz \in {-500, 0, 250} }

(* a query and its answer: a list (area queries) or a value (heights) *)
NoQuery == [op |-> "none", x |-> 0, z |-> 0, r |-> 0, list |-> <<>>, value |-> 0]

(* getHeightAt(x, z) *)
GetHeightAt(x, z) ==
    /\ query' = [op |-> "getHeightAt", x |-> x, z |-> z, r |-> 0, list |-> <<>>,
                 value |-> getHeightAt(heightmapData, x, z)]
    /\ UNCHANGED <<terrainVars, sample, est, xform, info, mgrVars, loaderVars, coordVars>>

----------------------------------------------------------------------------
(* MapDataManager: spatial queries on this.mapData = md.  Coordinates and   *)
(* radii are in 1/MilliPerUnit; a distance is compared in tenths of a game  *)
(* unit, squared on both sides, which for a radius >= 0 is the comparison   *)
(* Math.sqrt(dx * dx + dz * dz) <= radius.                                  *)

Tenths(d) == d \div (MilliPerUnit \div 10)

(* A faulty variant of WithinRadius that leaves out the points at exactly   *)
(* the radius.                                                              *)
WithinRadiusStrict(px, pz, centerX, centerZ, radius) ==
    LET dx == Tenths(px - centerX)
        dz == Tenths(pz - centerZ)
    IN  radius >= 0 /\ dx * dx + dz * dz < Tenths(radius) * Tenths(radius)

(* distance <= radius *)
WithinRadius(px, pz, centerX, centerZ, radius) ==
    LET dx == Tenths(px - centerX)
        dz == Tenths(pz - centerZ)
    IN  radius >= 0 /\ dx * dx + dz * dz <= Tenths(radius) * Tenths(radius)

getBuildingsInArea(md, centerX, centerZ, radius) ==
    IF md = Null THEN <<>>
    ELSE LET Near(building) ==
                 WithinRadius(building.gamePosition.x, building.gamePosition.z,
                              centerX, centerZ, radius)
         IN  SelectSeq(md.buildings.val, Near)

(* A faulty variant of getRoadsInArea that answers from the built-in roads  *)
(* when no snapshot is held.                                                *)
getRoadsInAreaBuiltin(md, centerX, centerZ, radius) ==
    LET roads == IF md = Null THEN transformRoadData(generateRealisticViimsiRoads)
                 ELSE md.roads.val
        Near(road) ==
            \E j \in 1..Len(road.gameGeometry) :
                WithinRadius(road.gameGeometry[j].x, road.gameGeometry[j].z,
                             centerX, centerZ, radius)
    IN  SelectSeq(roads, Near)

getRoadsInArea(md, centerX, centerZ, radius) ==
    IF md = Null THEN <<>>
    ELSE LET Near(road) ==
                 \E j \in 1..Len(road.gameGeometry) :
                     WithinRadius(road.gameGeometry[j].x, road.gameGeometry[j].z,
                                  centerX, centerZ, radius)
         IN  SelectSeq(md.roads.val, Near)

(* (x + 1000) / 2000 of getElevationAt, in 1/UVScale *)
ElevationNormalized(x) ==
    ((x + 1000 * MilliPerUnit) * UVScale) \div (2000 * MilliPerUnit)

(* A faulty variant of getElevationAt that does not clamp the indices. *)
getElevationAtUnclamped(md, x, z) ==
    IF md = Null THEN 0
    ELSE IF md.elevation.val = Null THEN 0
    ELSE LET data == ElevationItems(md.elevation.val)
             size == heightmapSize(data)
             mapX == (ElevationNormalized(x) * size) \div UVScale
             mapZ == (ElevationNormalized(z) * size) \div UVScale
         IN  HeightmapEntry(data, mapZ * size + mapX)

(* getElevationAt(x, z): the raster value of the cell, in whole metres *)
getElevationAt(md, x, z) ==
    IF md = Null THEN 0
    ELSE IF md.elevation.val = Null THEN 0
    ELSE LET data     == ElevationItems(md.elevation.val)
             size     == heightmapSize(data)
             mapX     == (ElevationNormalized(x) * size) \div UVScale
             mapZ     == (ElevationNormalized(z) * size) \div UVScale
             clampedX == Max2(0, Min2(size - 1, mapX))
             clampedZ == Max2(0, Min2(size - 1, mapZ))
         IN  HeightmapEntry(data, clampedZ * size + clampedX)

(* The centres queries are made at: the origin, a corner of the world, a    *)
(* point outside it and the places of the landmark buildings; the radii:    *)
(* none, 100, 500 and 3000 game units, and a negative one.                  *)
QueryCentres ==
    { [x |-> 0, z |-> 0],
      [x |-> 1000 * MilliPerUnit, z |-> -1000 * MilliPerUnit],
      [x |-> -2500 * MilliPerUnit, z |-> 300 * MilliPerUnit] }
    \cup { [x |-> transformBuilding(generateFallbackBuildings[i]).gamePosition.x,
            z |-> transformBuilding(generateFallbackBuildings[i]).gamePosition.z] :
                i \in 1..Len(generateFallbackBuildings) }

QueryRadii ==
    { 0, 100 * MilliPerUnit, 500 * MilliPerUnit, 3000 * MilliPerUnit, -(100 * MilliPerUnit) }

GetBuildingsInArea(centerX, centerZ, radius) ==
    /\ query' = [op |-> "getBuildingsInArea", x |-> centerX, z |-> centerZ, r |-> radius,
                 list |-> getBuildingsInArea(mapData, centerX, centerZ, radius),
                 value |-> 0]
    /\ UNCHANGED <<terrainVars, sample, est, xform, info, mgrVars, loaderVars, coordVars>>

GetRoadsInArea(centerX, centerZ, radius) ==
    /\ query' = [op |-> "getRoadsInArea", x |-> centerX, z |-> centerZ, r |-> radius,
                 list |-> getRoadsInArea(mapData, centerX, centerZ, radius),
                 value |-> 0]
    /\ UNCHANGED <<terrainVars, sample, est, xform, info, mgrVars, loaderVars, coordVars>>

GetElevationAt(x, z) ==
    /\ query' = [op |-> "getElevationAt", x |-> x, z |-> z, r |-> 0, list |-> <<>>,
                 value |-> getElevationAt(mapData, x, z)]
    /\ UNCHANGED <<terrainVars, sample, est, xform, info, mgrVars, loaderVars, coordVars>>

----------------------------------------------------------------------------
(* MapDataManager.getLocationInfo *)

isInViimsiParish(lat, lon) ==
    /\ lat >= viimsiParishBounds.south /\ lat <= viimsiParishBounds.north
    /\ lon >= viimsiParishBounds.west /\ lon <= viimsiParishBounds.east

(* array.slice(0, n) *)
Slice(s, n) == SubSeq(s, 1, Min2(n, Len(s)))

getLocationInfo(md, x, z) ==
    LET realWorldCoords == gameWorldToRealWorld(x, z)
        elevation       == getElevationAt(md, x, z)
        nearbyBuildings == getBuildingsInArea(md, x, z, 100 * MilliPerUnit)
        nearbyRoads     == getRoadsInArea(md, x, z, 50 * MilliPerUnit)
    IN  [gameCoords      |-> [x |-> x, z |-> z],
         realWorldCoords |-> realWorldCoords,
         elevation       |-> elevation,
         nearbyBuildings |-> Slice(nearbyBuildings, 5),
         nearbyRoads     |-> Slice(nearbyRoads, 3),
         inViimsiParish  |-> isInViimsiParish(realWorldCoords.lat, realWorldCoords.lon)]

NoInfo == [called |-> FALSE, value |-> getLocationInfo(Null, 0, 0)]

(* the player positions: the door of Street 1, the origin, the landmark     *)
(* Viimsi Manor and a point outside the world                               *)
PlayerPositions ==
    { realWorldToGameWorld(594700, 247700),
      [x |-> 0, z |-> 0],
      realWorldToGameWorld(594833, 247667),
      [x |-> 1500 * MilliPerUnit, z |-> -1500 * MilliPerUnit] }

GetLocationInfo(x, z) ==
    /\ info' = [called |-> TRUE, value |-> getLocationInfo(mapData, x, z)]
    /\ UNCHANGED <<terrainVars, query, sample, est, xform, mgrVars, loaderVars, coordVars>>

----------------------------------------------------------------------------
(* ViimsiMapLoader: estimators applied to OSM tags.                         *)
(*                                                                          *)
(* A tag is Undefined (the key is absent) or a text; the text of a numeric  *)
(* tag is its sequence of characters.  A JavaScript number is NaN or a      *)
(* number of tenths.                                                        *)

Text(s) == [kind |-> "text", s |-> s]

NaN == [kind |-> "NaN"]

Num(tenths) == [kind |-> "number", tenths |-> tenths]

Digits == {"0", "1", "2", "3", "4", "5", "6", "7", "8", "9"}

DigitValue(c) ==
    CASE c = "0" -> 0 [] c = "1" -> 1 [] c = "2" -> 2 [] c = "3" -> 3 [] c = "4" -> 4
      [] c = "5" -> 5 [] c = "6" -> 6 [] c = "7" -> 7 [] c = "8" -> 8 [] c = "9" -> 9

(* the length of the longest prefix of s made of digits *)
LeadingDigits(s) ==
    CHOOSE n \in 0..Len(s) :
        /\ \A i \in 1..n : s[i] \in Digits
        /\ n = Len(s) \/ s[n + 1] \notin Digits

RECURSIVE DigitsValue(_, _)
DigitsValue(s, n) ==
    IF n = 0 THEN 0 ELSE DigitsValue(s, n - 1) * 10 + DigitValue(s[n])

(* parseInt(text): the leading digits, NaN when there are none *)
parseInt(s) ==
    IF LeadingDigits(s) = 0 THEN NaN
    ELSE Num(DigitsValue(s, LeadingDigits(s)) * 10)

(* parseFloat(text): the leading digits and the first decimal, NaN when     *)
(* the text does not start with a digit                                     *)
parseFloat(s) ==
    LET n == LeadingDigits(s)
    IN  IF n = 0 THEN NaN
        ELSE IF Len(s) >= n + 2 /\ s[n + 1] = "." /\ s[n + 2] \in Digits
             THEN Num(DigitsValue(s, n) * 10 + DigitValue(s[n + 2]))
             ELSE Num(DigitsValue(s, n) * 10)

Times(number, k) ==
    IF number.kind = "NaN" THEN NaN ELSE Num(number.tenths * k)

(* a numeric tag in a condition: undefined and the empty text are falsy *)
Truthy(tag) == tag.kind = "text" /\ tag.s # <<>>

(* widths in tenths of a metre *)
estimateRoadWidth(highway) ==
    CASE highway = "primary"     -> 80
      [] highway = "secondary"   -> 60
      [] highway = "tertiary"    -> 50
      [] highway = "residential" -> 40
      [] highway = "service"     -> 30
      [] highway = "footway"     -> 20
      [] highway = "cycleway"    -> 20
      [] highway = "path"        -> 15
      [] OTHER                   -> 40

typeHeights(building) ==
    CASE building = "house"       -> Num(60)
      [] building = "residential" -> Num(80)
      [] building = "commercial"  -> Num(100)
      [] building = "industrial"  -> Num(120)
      [] building = "school"      -> Num(80)
      [] building = "hospital"    -> Num(120)
      [] building = "church"      -> Num(150)
      [] OTHER                    -> Undefined

(* A faulty variant of estimateBuildingHeight that looks at the levels      *)
(* before the height.                                                       *)
estimateBuildingHeightLevelsFirst(tags) ==
    IF Truthy(tags.levels) \/ Truthy(tags.buildingLevels)
    THEN Times(parseInt(IF Truthy(tags.levels) THEN tags.levels.s
                        ELSE tags.buildingLevels.s), 3)
    ELSE IF Truthy(tags.height) THEN parseFloat(tags.height.s)
    ELSE IF tags.building.kind = "text" /\ typeHeights(tags.building.s) # Undefined
         THEN typeHeights(tags.building.s)
         ELSE Num(60)

estimateBuildingHeight(tags) ==
    IF Truthy(tags.height) THEN parseFloat(tags.height.s)
    ELSE IF Truthy(tags.levels) \/ Truthy(tags.buildingLevels)
    THEN Times(parseInt(IF Truthy(tags.levels) THEN tags.levels.s
                        ELSE tags.buildingLevels.s), 3)
    ELSE IF tags.building.kind = "text" /\ typeHeights(tags.building.s) # Undefined
         THEN typeHeights(tags.building.s)
         ELSE Num(60)

(* The inputs the estimators are applied to *)
HighwayTypes ==
    { "motorway", "trunk", "primary", "secondary", "tertiary", "residential",
      "service", "footway", "cycleway", "path", "unknown" }

HeightTexts == { <<"1", "5">>, <<"0">>, <<"7", ".", "5">>, <<"a", "b", "c">> }

LevelTexts == { <<"3">>, <<"2">>, <<"0">>, <<"x">> }

BuildingTypes ==
    { "house", "residential", "commercial", "industrial", "school", "hospital",
      "church", "unknown" }

TagSets ==
    { [height |-> h, levels |-> l, buildingLevels |-> bl, building |-> b] :
        h  \in {Undefined} \cup {Text(t) : t \in HeightTexts},
        l  \in {Undefined} \cup {Text(t) : t \in LevelTexts},
        bl \in {Undefined} \cup {Text(t) : t \in LevelTexts},
        b  \in {Undefined} \cup {Text(t) : t \in BuildingTypes} }

NoTags ==
    [height |-> Undefined, levels |-> Undefined, buildingLevels |-> Undefined,
     building |-> Undefined]

IdleEst ==
    [kind |-> "idle", highway |-> "unknown", tags |-> NoTags, ran |-> {},
     estimatedWidth |-> 0, roadWidth |-> 0, height |-> Undefined]

(* fetchOSMRoads: width: this.estimateRoadWidth(road.tags.highway) *)
EstimateRoadWidth ==
    /\ est.kind = "road"
    /\ "estimateRoadWidth" \notin est.ran
    /\ est' = [est EXCEPT !.estimatedWidth = estimateRoadWidth(est.highway),
                          !.ran = @ \cup {"estimateRoadWidth"}]
    /\ UNCHANGED <<terrainVars, query, sample, xform, info, mgrVars, loaderVars, coordVars>>

(* transformRoadData: width: this.getRoadWidth(road.type) *)
GetRoadWidth ==
    /\ est.kind = "road"
    /\ "getRoadWidth" \notin est.ran
    /\ est' = [est EXCEPT !.roadWidth = getRoadWidth(est.highway),
                          !.ran = @ \cup {"getRoadWidth"}]
    /\ UNCHANGED <<terrainVars, query, sample, xform, info, mgrVars, loaderVars, coordVars>>

(* fetchOSMBuildings: height: this.estimateBuildingHeight(building.tags) *)
EstimateBuildingHeight ==
    /\ est.kind = "building"
    /\ est.ran = {}
    /\ est' = [est EXCEPT !.height = estimateBuildingHeight(est.tags),
                          !.ran = {"estimateBuildingHeight"}]
    /\ UNCHANGED <<terrainVars, query, sample, xform, info, mgrVars, loaderVars, coordVars>>

----------------------------------------------------------------------------
(* sampleHeightmap applied to one input *)

SampleSteps  == 30  \* steps of u and of v across [0, 1]
SampleMargin == 3   \* steps of u and of v on either side of [0, 1]

SampleCoords ==
    { (k * UVScale) \div SampleSteps : k \in (-SampleMargin)..(SampleSteps + SampleMargin) }

(* the rasters of the tests of sampleHeightmap, and a 3 x 3 one *)
SampleRasters ==
    { << 0, 10, 20, 30,
         5, 15, 25, 35,
         10, 20, 30, 40,
         15, 25, 35, 45 >>,
      << 10, 20, 30, 40 >>,
      << 0, 10, 20, 30 >>,
      << 7, 0, 3,
         1, 9, 4,
         6, 2, 8 >> }

IdleSample == [data |-> <<>>, size |-> 0, u |-> 0, v |-> 0, value |-> 0, done |-> FALSE]

SampleHeightmap ==
    /\ sample.size > 0
    /\ ~sample.done
    /\ sample' = [sample EXCEPT
                     !.value = sampleHeightmap(sample.data, sample.u, sample.v, sample.size),
                     !.done = TRUE]
    /\ UNCHANGED <<terrainVars, query, est, xform, info, mgrVars, loaderVars, coordVars>>

----------------------------------------------------------------------------
(* transformBuildingData applied to one list of raw buildings *)

MaxBuildings == 3   \* buildings in the list given to transformBuildingData

(* Raw buildings: with coordinates of their own (the first building of the  *)
(* transform test), with a geometry only (the second one), with both, with  *)
(* a latitude but no longitude, and with nothing to place them by.          *)
RawBuildingShapes ==
    { [name |-> "Test Building", lat |-> 594833, lon |-> 247667, height |-> 15,
       geometry |-> <<>>],
      [name |-> "Building with geometry", lat |-> 0, lon |-> 0, height |-> 8,
       geometry |-> << [lat |-> 595000, lon |-> 248000],
                       [lat |-> 594900, lon |-> 247900] >>],
      [name |-> "Both", lat |-> 594900, lon |-> 247700, height |-> 0,
       geometry |-> << [lat |-> 594700, lon |-> 248100] >>],
      [name |-> "Latitude only", lat |-> 594850, lon |-> 0, height |-> 10,
       geometry |-> << [lat |-> 595000, lon |-> 247800] >>],
      [name |-> "Latitude only, no geometry", lat |-> 594850, lon |-> 0, height |-> 0,
       geometry |-> <<>>],
      [name |-> "Bare", lat |-> 0, lon |-> 0, height |-> 0,
       geometry |-> <<>>] }

RawBuildingLists == UNION { [1..k -> RawBuildingShapes] : k \in 0..MaxBuildings }

IdleXform == [pc |-> "idle", input |-> <<>>, output |-> <<>>]

TransformBuildingData ==
    /\ xform.pc = "in"
    /\ xform' = [xform EXCEPT !.pc = "out",
                              !.output = transformBuildingData(xform.input)]
    /\ UNCHANGED <<terrainVars, query, sample, est, info, mgrVars, loaderVars, coordVars>>

----------------------------------------------------------------------------
(* Initial states *)

InitAuxIdle ==
    /\ tpc = "constructed"
    /\ heightmapData = Null
    /\ lodMeshes = <<>>
    /\ currentLOD = 0
    /\ terrainMesh = NoMesh
    /\ lodSwitches = 0
    /\ disposed = FALSE
    /\ lodCall = NoCall
    /\ query = NoQuery
    /\ sample = IdleSample
    /\ est = IdleEst
    /\ xform = IdleXform
    /\ info = NoInfo

InitMgr ==
    /\ isLoading = FALSE
    /\ mapData = Null
    /\ pc = [c \in Callers |-> "idle"]
    /\ result = [c \in Callers |-> NoResult]
    /\ loadSeq = 0
    /\ myLoad = [c \in Callers |-> 0]
    /\ joined = [c \in Callers |-> 0]
    /\ disposedQuiet = FALSE

InitLoaderIdle ==
    /\ cache = clearCache
    /\ now = 0
    /\ ticks = 0
    /\ fetch = [d \in Datasets |-> IdleFetch]
    /\ agg = [pc |-> "idle", n |-> 0, result |-> NoResult]
    /\ held = NothingHeld

InitCoordIdle ==
    /\ geoIn = [lat |-> South, lon |-> West]
    /\ gamePt = [x |-> 0, z |-> 0]
    /\ geoOut = [lat |-> South, lon |-> West]
    /\ stage = "idle"

(* MapDataManager with its loader as environment *)
Init == InitMgr /\ InitLoaderIdle /\ InitCoordIdle /\ InitAuxIdle

Next ==
    \/ \E c \in Callers : LoadMapDataCall(c)
    \/ \E c \in Callers : LoadResolved(c)
    \/ \E c \in Callers : LoadRejected(c)
    \/ \E c \in Callers : WaitingReturn(c)
    \/ Dispose

Spec == Init /\ [][Next]_vars

QueryCallers == {1, 2}

(* MapDataManager with two callers that call again and again.  Fairness:   *)
(* the loader call in flight terminates (it resolves or rejects), and the  *)
(* 10 ms timer of a waiting caller keeps firing, so a poll that stays      *)
(* able to return does return.                                             *)
NextLive ==
    \/ \E c \in QueryCallers : LoadMapDataCall(c)
    \/ \E c \in QueryCallers : LoadResolved(c)
    \/ \E c \in QueryCallers : LoadRejected(c)
    \/ \E c \in QueryCallers : WaitingReturn(c)
    \/ \E c \in QueryCallers : CallAgain(c)

SpecLive ==
    /\ Init /\ [][NextLive]_vars
    /\ \A c \in QueryCallers : WF_vars(LoadResolved(c) \/ LoadRejected(c))
    /\ \A c \in QueryCallers : WF_vars(WaitingReturn(c))

(* The coordinate transform applied to the points of a grid over the      *)
(* bounding box                                                            *)
GridPoints ==
    { [lat |-> South + (i * (North - South)) \div GridSteps,
       lon |-> West + (j * (East - West)) \div GridSteps] :
        i \in 0..GridSteps, j \in 0..GridSteps }

InitCoord ==
    /\ InitMgr /\ InitLoaderIdle /\ InitAuxIdle
    /\ geoIn \in GridPoints
    /\ gamePt = [x |-> 0, z |-> 0]
    /\ geoOut = [lat |-> South, lon |-> West]
    /\ stage = "in"

ToGameWorld ==
    /\ stage = "in"
    /\ gamePt' = realWorldToGameWorld(geoIn.lat, geoIn.lon)
    /\ stage' = "game"
    /\ UNCHANGED <<geoIn, geoOut, mgrVars, loaderVars, auxVars>>

ToRealWorld ==
    /\ stage = "game"
    /\ geoOut' = gameWorldToRealWorld(gamePt.x, gamePt.z)
    /\ stage' = "back"
    /\ UNCHANGED <<geoIn, gamePt, mgrVars, loaderVars, auxVars>>

NextCoord == ToGameWorld \/ ToRealWorld

SpecCoord == InitCoord /\ [][NextCoord]_vars

(* ViimsiMapLoader on its own: loadViimsiData calls, provider outcomes,    *)
(* the clock and clearCache                                                *)
InitLoader == InitMgr /\ InitLoaderIdle /\ InitCoordIdle /\ InitAuxIdle

NextLoader ==
    \/ LoadViimsiDataCall
    \/ \E d \in Datasets : FetchSettle(d)
    \/ LoadViimsiDataReturn
    \/ ClearCache
    \/ Tick

SpecLoader == InitLoader /\ [][NextLoader]_vars

(* ViimsiMapLoader with a caller that compares successive loads made at    *)
(* one time                                                                *)
InitReload == InitMgr /\ InitLoaderIdle /\ InitCoordIdle /\ InitAuxIdle

NextReload ==
    \/ LoadViimsiDataCall
    \/ \E d \in Datasets : FetchSettle(d)
    \/ LoadViimsiDataReturn
    \/ KeepResult
    \/ ClearCache

SpecReload == InitReload /\ [][NextReload]_vars

(* TerrainSystem with the MapDataManager it loads from *)
InitTerrain == InitMgr /\ InitLoaderIdle /\ InitCoordIdle /\ InitAuxIdle

NextTerrain ==
    \/ Initialize
    \/ LoadResolved(TerrainCaller)
    \/ LoadRejected(TerrainCaller)
    \/ InitializeLoaded
    \/ InitializeRejected
    \/ GenerateTerrainLOD
    \/ AddToScene
    \/ \E cameraPosition \in Cameras : UpdateLOD(cameraPosition)
    \/ \E level \in SwitchLevels : SwitchLOD(level)
    \/ TerrainDispose
    \/ \E p \in TerrainProbes : GetHeightAt(p.x, p.z)

SpecTerrain == InitTerrain /\ [][NextTerrain]_vars

(* MapDataManager, two callers, with its spatial queries *)
InitQuery == InitMgr /\ InitLoaderIdle /\ InitCoordIdle /\ InitAuxIdle

NextQuery ==
    \/ \E c \in QueryCallers : LoadMapDataCall(c)
    \/ \E c \in QueryCallers : LoadResolved(c)
    \/ \E c \in QueryCallers : LoadRejected(c)
    \/ \E c \in QueryCallers : WaitingReturn(c)
    \/ Dispose
    \/ \E p \in QueryCentres, radius \in QueryRadii : GetBuildingsInArea(p.x, p.z, radius)
    \/ \E p \in QueryCentres, radius \in QueryRadii : GetRoadsInArea(p.x, p.z, radius)
    \/ \E p \in QueryCentres : GetElevationAt(p.x, p.z)

SpecQuery == InitQuery /\ [][NextQuery]_vars

(* MapDataManager, two callers, with getLocationInfo *)
InitLocation == InitMgr /\ InitLoaderIdle /\ InitCoordIdle /\ InitAuxIdle

NextLocation ==
    \/ \E c \in QueryCallers : LoadMapDataCall(c)
    \/ \E c \in QueryCallers : LoadResolvedFrom(c, DenseRawMapDataSet(myLoad[c]))
    \/ \E c \in QueryCallers : LoadRejected(c)
    \/ \E c \in QueryCallers : WaitingReturn(c)
    \/ Dispose
    \/ \E p \in PlayerPositions : GetLocationInfo(p.x, p.z)

SpecLocation == InitLocation /\ [][NextLocation]_vars

(* sampleHeightmap on the rasters and coordinates above *)
InitSample ==
    /\ InitMgr /\ InitLoaderIdle /\ InitCoordIdle
    /\ tpc = "constructed" /\ heightmapData = Null /\ lodMeshes = <<>>
    /\ currentLOD = 0 /\ terrainMesh = NoMesh /\ lodSwitches = 0
    /\ disposed = FALSE /\ lodCall = NoCall
    /\ query = NoQuery /\ est = IdleEst /\ xform = IdleXform /\ info = NoInfo
    /\ \E data \in SampleRasters, u \in SampleCoords, v \in SampleCoords :
          sample = [data |-> data, size |-> heightmapSize(data), u |-> u, v |-> v,
                    value |-> 0, done |-> FALSE]

NextSample == SampleHeightmap

SpecSample == InitSample /\ [][NextSample]_vars

(* the estimators of the loader and getRoadWidth on one OSM element *)
InitEstimate ==
    /\ InitMgr /\ InitLoaderIdle /\ InitCoordIdle
    /\ tpc = "constructed" /\ heightmapData = Null /\ lodMeshes = <<>>
    /\ currentLOD = 0 /\ terrainMesh = NoMesh /\ lodSwitches = 0
    /\ disposed = FALSE /\ lodCall = NoCall
    /\ query = NoQuery /\ sample = IdleSample /\ xform = IdleXform /\ info = NoInfo
    /\ \/ \E highway \in HighwayTypes :
             est = [IdleEst EXCEPT !.kind = "road", !.highway = highway]
       \/ \E tags \in TagSets :
             est = [IdleEst EXCEPT !.kind = "building", !.tags = tags]

NextEstimate == EstimateRoadWidth \/ GetRoadWidth \/ EstimateBuildingHeight

SpecEstimate == InitEstimate /\ [][NextEstimate]_vars

(* transformBuildingData on the lists above *)
InitTransform ==
    /\ InitMgr /\ InitLoaderIdle /\ InitCoordIdle
    /\ tpc = "constructed" /\ heightmapData = Null /\ lodMeshes = <<>>
    /\ currentLOD = 0 /\ terrainMesh = NoMesh /\ lodSwitches = 0
    /\ disposed = FALSE /\ lodCall = NoCall
    /\ query = NoQuery /\ sample = IdleSample /\ est = IdleEst /\ info = NoInfo
    /\ \E buildings \in RawBuildingLists :
          xform = [pc |-> "in", input |-> buildings, output |-> <<>>]

NextTransform == TransformBuildingData

SpecTransform == InitTransform /\ [][NextTransform]_vars

----------------------------------------------------------------------------
(* Properties of MapDataManager.loadMapData (specification Spec) *)

(* the caller that made loader call l *)
Owner(l) == CHOOSE c \in Callers : myLoad[c] = l

Waited(w) == joined[w] # 0 /\ pc[w] = "done"

\* C1: single-flight load.  Calls issued while a load is in flight make no
\* call into loadViimsiData (one loader call serves them all), and every
\* such caller and the caller that owns the load resolve to equal results.
C1_SingleFlightDeepEqual ==
    /\ Cardinality({c \in Callers : pc[c] = "loading"}) <= 1
    /\ \A w \in Callers : joined[w] # 0 => myLoad[w] = 0
    /\ \A w \in Callers :
          Waited(w) =>
            /\ result[w].kind = "resolved"
            /\ result[Owner(joined[w])].kind = "resolved"
            /\ result[w].value = result[Owner(joined[w])].value

\* C2: a call issued while a load is in flight settles exactly as that
\* in-flight call does: the same snapshot when it succeeds, the same
\* rejection when it fails.
C2_WaiterSettlesAsInFlight ==
    \A w \in Callers :
        Waited(w) =>
            LET inflight == result[Owner(joined[w])]
            IN  /\ inflight.kind = "resolved" => result[w] = inflight
                /\ inflight.kind = "rejected" => result[w] = inflight

\* C3: a load that fails (the loader rejected or a transform threw) rejects
\* the call with that load's error, clears isLoading and stores nothing:
\* neither the step that starts the load nor the step in which it fails
\* changes mapData, so a later call finds the flag clear and loads afresh.
C3_FailureStoresNothing ==
    [][\A c \in Callers :
          /\ (pc[c] = "idle" /\ pc'[c] = "loading") => mapData' = mapData
          /\ (pc[c] = "loading" /\ pc'[c] = "done" /\ result'[c].kind = "rejected")
               => /\ mapData' = mapData
                  /\ isLoading' = FALSE
                  /\ result'[c].error.load = myLoad[c]]_vars

\* C3 witness: a load failed after an earlier one had succeeded; the earlier
\* snapshot is still held and the flag is clear.
C3_Witness ==
    \E c \in Callers :
        /\ result[c].kind = "rejected"
        /\ mapData.kind = "snapshot"
        /\ mapData.timestamp < result[c].error.load
        /\ ~isLoading

SameLoad(md) ==
    \/ md.kind = "null"
    \/ /\ md.kind = "snapshot"
       /\ md.elevation.load = md.buildings.load
       /\ md.buildings.load = md.roads.load
       /\ md.roads.load = md.forests.load

\* C4: in every state another task can observe, mapData is null or one
\* complete snapshot whose elevation, buildings, roads and forests come from
\* the same load; so is every snapshot a caller was handed.
C4_SnapshotAtomic ==
    /\ SameLoad(mapData)
    /\ \A c \in Callers : result[c].kind = "resolved" => SameLoad(result[c].value)

\* C4 witness: a second load has replaced the snapshot of an earlier one.
C4_Witness ==
    /\ mapData.kind = "snapshot"
    /\ \E c \in Callers :
          /\ result[c].kind = "resolved"
          /\ result[c].value.kind = "snapshot"
          /\ result[c].value.timestamp < mapData.timestamp

InWorld(v) ==
    /\ gameWorldBounds.minX <= v.x /\ v.x <= gameWorldBounds.maxX
    /\ gameWorldBounds.minZ <= v.z /\ v.z <= gameWorldBounds.maxZ

\* C10: after any load every transformed building position and every
\* transformed road vertex lies inside gameWorldBounds, [-1000, 1000] on
\* both axes.
C10_EntitiesInsideWorld ==
    mapData.kind = "snapshot" =>
        /\ \A i \in DOMAIN mapData.buildings.val :
              InWorld(mapData.buildings.val[i].gamePosition)
        /\ \A i \in DOMAIN mapData.roads.val :
              \A j \in DOMAIN mapData.roads.val[i].gameGeometry :
                 InWorld(mapData.roads.val[i].gameGeometry[j])

----------------------------------------------------------------------------
(* Properties of ViimsiMapLoader (specification SpecLoader) *)

CallStep == agg.pc # "waiting" /\ agg'.pc = "waiting"

\* C5: for each dataset, a fetch made while the age of its cache entry is
\* below 30 minutes returns the cached value without a network call and
\* leaves the cache alone; a fetch made once the age has reached 30 minutes
\* calls the provider.
C5_CacheThirtyMinutes ==
    [][CallStep =>
         \A d \in Datasets :
            cache[d].kind = "entry" =>
               IF now - cache[d].timestamp < 30 * 60 * 1000
               THEN /\ fetch'[d].pc = "done"
                    /\ fetch'[d].status = "fulfilled"
                    /\ fetch'[d].value = cache[d].data
                    /\ ~fetch'[d].network
                    /\ cache'[d] = cache[d]
               ELSE /\ fetch'[d].pc = "inflight"
                    /\ fetch'[d].network]_vars

\* C5 witness: loadViimsiData has just been called; one dataset whose entry
\* is one millisecond short of 30 minutes old was served from the cache,
\* another whose entry is exactly 30 minutes old is being fetched.
C5_Witness ==
    /\ agg.pc = "waiting"
    /\ \E d, e \in Datasets :
          /\ fetch[d].pc = "done" /\ ~fetch[d].network
          /\ cache[d].kind = "entry"
          /\ now - cache[d].timestamp = cacheTimeout - 1
          /\ fetch[e].pc = "inflight" /\ fetch[e].network
          /\ cache[e].kind = "entry"
          /\ now - cache[e].timestamp = cacheTimeout

\* C6: when a fetch returned a fallback value because its provider call or
\* the decoding failed, the cache holds no entry with that value, for each
\* of the four datasets.
C6_FallbackNotCached ==
    \A d \in Datasets :
        (fetch[d].pc = "done" /\ fetch[d].failed)
            => ~(cache[d].kind = "entry" /\ cache[d].data = fetch[d].value)

ListDatasets == {"buildings", "roads", "forests"}

\* C7: whatever the four fetches did, loadViimsiData resolves, never rejects,
\* with an object carrying elevation, buildings, roads, forests, bounds and
\* timestamp; each list dataset is an array and bounds is the fixed box.
C7_LoadViimsiDataResolves ==
    agg.pc = "done" =>
        /\ agg.result.kind = "resolved"
        /\ DOMAIN agg.result.value =
              {"elevation", "buildings", "roads", "forests", "bounds", "timestamp"}
        /\ \A d \in ListDatasets : agg.result.value[d].kind = "data"
        /\ agg.result.value.bounds = viimsiParishBounds

\* C7 witness: loadViimsiData returned after all four provider calls failed.
C7_Witness ==
    /\ agg.pc = "done"
    /\ \A d \in Datasets : fetch[d].failed

DesignatedFallback(d) ==
    CASE d = "elevation" -> {"procedural"}
      [] d = "buildings" -> {"landmarks", "realistic"}
      [] d = "roads"     -> {"builtinRoads"}
      [] d = "forests"   -> {"empty"}

\* C8: a fetch whose provider call or decoding failed is fulfilled, never
\* rejected, with the fallback of its dataset: a built-in landmark list for
\* buildings, the built-in road list for roads, a procedural heightmap for
\* elevation, the empty list for forests.
C8_FetchAbsorbsFailure ==
    \A d \in Datasets :
        (fetch[d].pc = "done" /\ fetch[d].failed)
            => /\ fetch[d].status = "fulfilled"
               /\ fetch[d].value.kind = "data"
               /\ fetch[d].value.src \in DesignatedFallback(d)

\* C8 witness: the provider failed for every dataset of one load and all
\* four fetches have settled; loadViimsiData has not returned yet.
C8_Witness ==
    /\ \A d \in Datasets : fetch[d].pc = "done" /\ fetch[d].failed
    /\ agg.pc = "waiting"

----------------------------------------------------------------------------
(* Properties of the coordinate transform (specification SpecCoord) *)

(* 0.001 degree, in units of 1e-4 degree *)
Tolerance == 10

Abs(n) == IF n < 0 THEN -n ELSE n

\* C9: round trip.  For every (lat, lon) inside the bounding box,
\* gameWorldToRealWorld(realWorldToGameWorld(lat, lon)) is within 0.001
\* degree of lat and of lon.
C9_RoundTrip ==
    stage = "back" =>
        /\ Abs(geoOut.lat - geoIn.lat) < Tolerance
        /\ Abs(geoOut.lon - geoIn.lon) < Tolerance

\* C9 witness: a point strictly inside the box, off the centre, has gone
\* there and back.
C9_Witness ==
    /\ stage = "back"
    /\ South < geoIn.lat /\ geoIn.lat < North
    /\ West < geoIn.lon /\ geoIn.lon < East
    /\ gamePt.x # 0 /\ gamePt.z # 0

----------------------------------------------------------------------------
(* Properties of TerrainSystem (specification SpecTerrain) *)

\* C11: one world size is shared by MapDataManager and TerrainSystem: the
\* two world sizes and world bounds are equal, and a world point (x, z) given
\* to getHeightAt maps to the normalised heightmap position that
\* getElevationAt maps it to.
C11_OneWorldSize ==
    query.op = "getHeightAt" =>
        /\ gameWorldSize = worldSize
        /\ gameWorldBounds = getWorldBounds
        /\ TerrainUV(query.x) = ElevationNormalized(query.x)
        /\ TerrainUV(query.z) = ElevationNormalized(query.z)

\* C12: for every elevation raster, flat ones included, and every vertex of
\* every LOD mesh, getHeightAt at the (x, z) of the vertex equals the height
\* that mesh generation wrote to the vertex.
C12_QueryMatchesMesh ==
    heightmapData # Null =>
        \A i \in 1..Len(lodMeshes) :
            \A ix \in 1..lodMeshes[i].segments :
                getHeightAt(heightmapData, VertexX(lodMeshes[i].segments, ix - 1), VertexZ)
                    = lodMeshes[i].y[ix]

----------------------------------------------------------------------------
(* Properties of sampleHeightmap (specification SpecSample) *)

Clamp01(u) == Max2(0, Min2(UVScale, u))

(* the weight, in 1/UVScale, of a grid node at offset t (in 1/UVScale of a  *)
(* cell) from the point: the piecewise-linear hat function                  *)
Hat(t) == Max2(0, UVScale - Abs(t))

(* the bilinear interpolant of the raster at grid position (gx, gy): every  *)
(* node weighted by the product of its two hat weights, summed over the     *)
(* first k nodes                                                            *)
RECURSIVE HatSum(_, _, _, _, _)
HatSum(data, size, gx, gy, k) ==
    IF k = 0 THEN 0
    ELSE HatSum(data, size, gx, gy, k - 1)
         + data[k] * Hat(gx - ((k - 1) % size) * UVScale)
                   * Hat(gy - ((k - 1) \div size) * UVScale)

BilinearReference(data, size, u, v) ==
    HatSum(data, size, Clamp01(u) * (size - 1), Clamp01(v) * (size - 1), size * size)

(* the clamped point is a node of the grid *)
OnGrid(size, u, v) ==
    /\ (Clamp01(u) * (size - 1)) % UVScale = 0
    /\ (Clamp01(v) * (size - 1)) % UVScale = 0

GridNode(size, u, v) ==
    ((Clamp01(v) * (size - 1)) \div UVScale) * size + (Clamp01(u) * (size - 1)) \div UVScale

\* C13: for every u, v (also outside [0, 1]) and every size x size raster,
\* sampleHeightmap(u, v, size) is the bilinear blend of the raster at the
\* point obtained by clamping u and v to [0, 1]; at a grid node it is the raw
\* value of the node, and it equals the sample at the clamped coordinates.
C13_SampleIsBilinear ==
    sample.done =>
        /\ sample.value = BilinearReference(sample.data, sample.size, sample.u, sample.v)
        /\ OnGrid(sample.size, sample.u, sample.v) =>
              sample.value =
                  sample.data[GridNode(sample.size, sample.u, sample.v) + 1] * HeightDen
        /\ sample.value =
              sampleHeightmap(sample.data, Clamp01(sample.u), Clamp01(sample.v), sample.size)

(* sample(-0.1, 1.1, 4) on the raster of the test is 15, the value at (0, 1) *)
C13_Witness ==
    /\ sample.done
    /\ sample.size = 4
    /\ sample.u = -(UVScale \div 10)
    /\ sample.v = UVScale + UVScale \div 10
    /\ sample.value = 15 * HeightDen

----------------------------------------------------------------------------
(* Properties of TerrainSystem LOD switching (specification SpecTerrain) *)

\* C14: LOD selection.  After updateLOD has run for a camera at distance d,
\* the current level is the smallest index whose threshold distances[i] is
\* >= d, and it is the last level when d exceeds every threshold.
C14_SelectsFirstThreshold ==
    (lodCall.op = "updateLOD" /\ lodCall.acted) =>
        LET d == lodCall.arg.distance
        IN  /\ (\E i \in 1..Len(lodDistances) : lodDistances[i] >= d) =>
                  /\ lodDistances[currentLOD + 1] >= d
                  /\ \A j \in 1..currentLOD : lodDistances[j] < d
            /\ (\A i \in 1..Len(lodDistances) : lodDistances[i] < d) =>
                  currentLOD = lodLevels - 1

(* the camera came back to exactly the first threshold from farther away *)
C14_Witness ==
    /\ lodCall.op = "updateLOD"
    /\ lodCall.acted
    /\ lodCall.arg.distance = lodDistances[1]
    /\ currentLOD = 0
    /\ lodSwitches >= 2

VisibleMeshes == {i \in 1..Len(lodMeshes) : lodMeshes[i].visible}

\* C15: from the end of LOD mesh generation until dispose, whatever
\* updateLOD and switchLOD calls (valid or invalid levels) have been made,
\* exactly one LOD mesh is visible and lodMeshes holds all config.lod.levels
\* meshes.
C15_OneVisibleAllHeld ==
    (tpc \in {"generated", "ready"} /\ ~disposed) =>
        /\ Len(lodMeshes) = lodLevels
        /\ Cardinality(VisibleMeshes) = 1

(* loadMapData() resolved initialize() with a snapshot without a raster *)
NullRasterLoaded ==
    /\ result[TerrainCaller].kind = "resolved"
    /\ result[TerrainCaller].value # Null
    /\ result[TerrainCaller].value.elevation.val = Null

----------------------------------------------------------------------------
(* Properties of the spatial queries of MapDataManager (specification       *)
(* SpecQuery)                                                               *)

(* a query was made in this step *)
QueryStep == query' # query

(* the point (px, pz) lies at Euclidean distance <= radius from the centre, *)
(* in tenths of a game unit                                                 *)
EuclidWithin(px, pz, centerX, centerZ, radius) ==
    /\ radius >= 0
    /\ (Tenths(px - centerX) * Tenths(px - centerX))
         + (Tenths(pz - centerZ) * Tenths(pz - centerZ))
       <= Tenths(radius) * Tenths(radius)

(* the indices of the buildings of snapshot md within radius of the centre *)
BuildingsWithin(md, centerX, centerZ, radius) ==
    { j \in 1..Len(md.buildings.val) :
        EuclidWithin(md.buildings.val[j].gamePosition.x, md.buildings.val[j].gamePosition.z,
                     centerX, centerZ, radius) }

\* C16: getBuildingsInArea(x, z, r) returns exactly the buildings of the
\* current snapshot whose transformed (x, z) lies at Euclidean distance <= r
\* from the centre: none farther than r, none within r left out, each once.
C16_BuildingsExactlyWithin ==
    [][ (QueryStep /\ query'.op = "getBuildingsInArea" /\ mapData # Null) =>
            LET within == BuildingsWithin(mapData, query'.x, query'.z, query'.r)
            IN  /\ \A i \in 1..Len(query'.list) :
                      \E j \in within : mapData.buildings.val[j] = query'.list[i]
                /\ \A j \in within :
                      \E i \in 1..Len(query'.list) :
                          query'.list[i] = mapData.buildings.val[j]
                /\ Len(query'.list) = Cardinality(within) ]_vars

(* a query of radius 0 at the place of a building returned it and left      *)
(* others out                                                               *)
C16_Witness ==
    /\ query.op = "getBuildingsInArea"
    /\ query.r = 0
    /\ mapData # Null
    /\ Len(query.list) >= 1
    /\ Len(query.list) < Len(mapData.buildings.val)
    /\ BuildingsWithin(mapData, query.x, query.z, query.r) # {}

\* C17: whenever no snapshot is held (before the first successful load,
\* after a failed first load, after dispose) getBuildingsInArea and
\* getRoadsInArea return the empty list and getElevationAt returns 0 for
\* every input; and no query modifies any state.
C17_NoSnapshotEmptyAnswers ==
    [][ QueryStep =>
            /\ UNCHANGED <<mgrVars, loaderVars, coordVars, terrainVars, sample, est, xform, info>>
            /\ mapData = Null =>
                  /\ query'.op \in {"getBuildingsInArea", "getRoadsInArea"} =>
                        query'.list = <<>>
                  /\ query'.op = "getElevationAt" => query'.value = 0 ]_vars

(* the first load failed and a road query over the whole world came back    *)
(* empty                                                                    *)
C17_Witness ==
    /\ mapData = Null
    /\ \E c \in QueryCallers : result[c].kind = "rejected"
    /\ \A c \in QueryCallers : result[c].kind # "resolved"
    /\ query.op = "getRoadsInArea"
    /\ query.r = 3000 * MilliPerUnit
    /\ query.list = <<>>

----------------------------------------------------------------------------
(* C19: for every road category, estimateRoadWidth(category) of the loader  *)
(* equals getRoadWidth(category) of the manager, and both answer the        *)
(* default 4 for an unrecognised category.                                  *)
C19_RoadWidthsAgree ==
    (est.kind = "road" /\ est.ran = {"estimateRoadWidth", "getRoadWidth"}) =>
        /\ est.estimatedWidth = est.roadWidth
        /\ est.highway = "unknown" =>
               est.estimatedWidth = 40 /\ est.roadWidth = 40

----------------------------------------------------------------------------
(* The numbers the tag texts of HeightTexts and LevelTexts stand for, in    *)
(* tenths, and the category table, written out value by value.              *)
HeightTagValue(t) ==
    CASE t = <<"1", "5">>      -> Num(150)
      [] t = <<"0">>           -> Num(0)
      [] t = <<"7", ".", "5">> -> Num(75)
      [] OTHER                 -> NaN

LevelsTimesThree(t) ==
    CASE t = <<"3">> -> Num(90)
      [] t = <<"2">> -> Num(60)
      [] t = <<"0">> -> Num(0)
      [] OTHER       -> NaN

CategoryHeight(building) ==
    IF building = Text("house") THEN Num(60)
    ELSE IF building = Text("residential") THEN Num(80)
    ELSE IF building = Text("commercial") THEN Num(100)
    ELSE IF building = Text("industrial") THEN Num(120)
    ELSE IF building = Text("school") THEN Num(80)
    ELSE IF building = Text("hospital") THEN Num(120)
    ELSE IF building = Text("church") THEN Num(150)
    ELSE Num(60)

(* C20: estimateBuildingHeight(tags) is the height attribute when present;  *)
(* otherwise levels (or building:levels) times 3; otherwise the table value *)
(* of the building category (house 6, residential 8, commercial 10,         *)
(* industrial 12, school 8, hospital 12, church 15); otherwise 6. A         *)
(* higher-priority attribute always wins over a lower one.                  *)
C20_HeightPriority ==
    (est.kind = "building" /\ est.ran = {"estimateBuildingHeight"}) =>
        LET tags == est.tags
        IN  /\ tags.height # Undefined =>
                   est.height = HeightTagValue(tags.height.s)
            /\ (tags.height = Undefined /\ tags.levels # Undefined) =>
                   est.height = LevelsTimesThree(tags.levels.s)
            /\ (tags.height = Undefined /\ tags.levels = Undefined
                  /\ tags.buildingLevels # Undefined) =>
                   est.height = LevelsTimesThree(tags.buildingLevels.s)
            /\ (tags.height = Undefined /\ tags.levels = Undefined
                  /\ tags.buildingLevels = Undefined) =>
                   est.height = CategoryHeight(tags.building)

(* a building with a height, levels and a category: the height wins *)
C20_Witness ==
    /\ est.kind = "building"
    /\ est.ran = {"estimateBuildingHeight"}
    /\ est.tags.height = Text(<<"1", "5">>)
    /\ est.tags.levels = Text(<<"2">>)
    /\ est.tags.building = Text("church")
    /\ est.height = Num(150)

----------------------------------------------------------------------------
(* Properties of transformBuildingData (specification SpecTransform) *)

(* where the claim places a raw building *)
PlacedAt(building) ==
    IF building.lat # 0 /\ building.lon # 0
    THEN realWorldToGameWorld(building.lat, building.lon)
    ELSE IF building.geometry # <<>>
    THEN realWorldToGameWorld(building.geometry[1].lat, building.geometry[1].lon)
    ELSE [x |-> 0, z |-> 0]

\* C21: transformBuildingData keeps every input building, in order, and
\* places each one at its own (lat, lon) when present, else at the first
\* point of its geometry, else at the world origin; a building with neither
\* is placed at the origin, not dropped.
C21_EveryBuildingPlaced ==
    xform.pc = "out" =>
        /\ Len(xform.output) = Len(xform.input)
        /\ \A i \in 1..Len(xform.input) :
              /\ xform.output[i].name = xform.input[i].name
              /\ xform.output[i].gamePosition.x = PlacedAt(xform.input[i]).x
              /\ xform.output[i].gamePosition.z = PlacedAt(xform.input[i]).z

\* C21 witness: a list of three buildings whose second has neither
\* coordinates nor geometry came out with three buildings, the second at the
\* origin, the first placed by its coordinates and the third by its geometry.
C21_Witness ==
    /\ xform.pc = "out"
    /\ Len(xform.input) = 3
    /\ xform.input[1].name = "Test Building"
    /\ xform.input[2].name = "Bare"
    /\ xform.input[3].name = "Building with geometry"
    /\ Len(xform.output) = 3
    /\ xform.output[2].name = "Bare"
    /\ xform.output[2].gamePosition.x = 0 /\ xform.output[2].gamePosition.z = 0
    /\ xform.output[1].gamePosition.x = realWorldToGameWorld(594833, 247667).x
    /\ xform.output[3].gamePosition.z = realWorldToGameWorld(595000, 248000).z

----------------------------------------------------------------------------
(* Properties of successive loads (specification SpecReload) *)

MapDataFields == {"elevation", "buildings", "roads", "forests", "bounds"}

----------------------------------------------------------------------------
(* the raster cell of a world coordinate: the cells split [-1000, 1000]     *)
(* into size equal parts, and a coordinate outside belongs to the nearest   *)
(* edge cell                                                                *)
CellOf(x, size) ==
    CHOOSE c \in 0..(size - 1) :
        /\ c = 0 \/ x * size >= (c * 2000 - 1000 * size) * MilliPerUnit
        /\ c = size - 1 \/ x * size < ((c + 1) * 2000 - 1000 * size) * MilliPerUnit

\* C23: getElevationAt(x, z) never reads outside the raster: for every world
\* point, also outside [-1000, 1000], the answer is the raw sample of the
\* cell the clamped indices name (the nearest edge cell for a point outside
\* the world), without interpolation.
C23_ElevationClamped ==
    [][(QueryStep /\ query'.op = "getElevationAt" /\ mapData # Null
          /\ mapData.elevation.val # Null) =>
            LET data  == ElevationItems(mapData.elevation.val)
                size  == heightmapSize(data)
                index == CellOf(query'.z, size) * size + CellOf(query'.x, size)
            IN  /\ index \in 0..(Len(data) - 1)
                /\ query'.value = data[index + 1]]_vars

\* C23 witness: a point west of the world was answered with the sample of
\* the west edge cell of its row.
C23_Witness ==
    /\ query.op = "getElevationAt"
    /\ query.x = -2500 * MilliPerUnit
    /\ query.z = 300 * MilliPerUnit
    /\ mapData # Null
    /\ mapData.elevation.val = DataValue("geotiff", 1)
    /\ query.value = 3

----------------------------------------------------------------------------
(* Properties of getLocationInfo (specification SpecLocation) *)

InfoStep == info' # info

(* squared distance, in tenths of a game unit, of a point from (x, z) *)
DistSq(px, pz, x, z) ==
    Tenths(px - x) * Tenths(px - x) + Tenths(pz - z) * Tenths(pz - z)

BuildingDistSq(building, x, z) ==
    DistSq(building.gamePosition.x, building.gamePosition.z, x, z)

(* a road is as far as its nearest vertex *)
RoadDistSq(road, x, z) ==
    LET ds == { DistSq(road.gameGeometry[j].x, road.gameGeometry[j].z, x, z) :
                    j \in 1..Len(road.gameGeometry) }
    IN  CHOOSE d \in ds : \A e \in ds : d <= e

Elements(s) == { s[i] : i \in 1..Len(s) }

\* C24: getLocationInfo(x, z) returns the nearest buildings and roads: of
\* the buildings within 100 of (x, z) it returns at most 5, and no in-radius
\* building it leaves out is closer than one it returns; likewise for the at
\* most 3 roads within 50.
C24_NearestReturned ==
    [][(InfoStep /\ mapData # Null) =>
          LET x == info'.value.gameCoords.x
              z == info'.value.gameCoords.z
              returnedB == Elements(info'.value.nearbyBuildings)
              returnedR == Elements(info'.value.nearbyRoads)
              withinB == { b \in Elements(mapData.buildings.val) :
                             BuildingDistSq(b, x, z) <= 1000 * 1000 }
              withinR == { r \in Elements(mapData.roads.val) :
                             r.gameGeometry # <<>> /\ RoadDistSq(r, x, z) <= 500 * 500 }
          IN  /\ Len(info'.value.nearbyBuildings) <= 5
              /\ returnedB \subseteq withinB
              /\ \A omitted \in withinB \ returnedB : \A b \in returnedB :
                    BuildingDistSq(omitted, x, z) >= BuildingDistSq(b, x, z)
              /\ Len(info'.value.nearbyRoads) <= 3
              /\ returnedR \subseteq withinR
              /\ \A omitted \in withinR \ returnedR : \A r \in returnedR :
                    RoadDistSq(omitted, x, z) >= RoadDistSq(r, x, z)]_vars

----------------------------------------------------------------------------
(* Properties of LOD switching (specification SpecTerrain) *)

LODCallStep == lodCall' # lodCall \/ lodSwitches' # lodSwitches

\* C25: switchLOD(n) with n < 0 or n >= lodMeshes.length changes nothing:
\* currentLOD, terrainMesh, the visibility flag of every mesh and
\* stats.lodSwitches are unchanged.
C25_InvalidLevelIgnored ==
    [][(lodCall' # lodCall /\ lodCall'.op = "switchLOD"
          /\ (lodCall'.arg.level < 0 \/ lodCall'.arg.level >= Len(lodMeshes)))
        => UNCHANGED <<currentLOD, terrainMesh, lodMeshes, lodSwitches>>]_vars

\* C25 witness: after a switch to level 1, switchLOD(2) on two meshes was
\* ignored: level 1 is still the current and the visible one and one switch
\* is counted.
C25_Witness ==
    /\ lodCall.op = "switchLOD"
    /\ lodCall.arg.level = 2
    /\ ~lodCall.acted
    /\ Len(lodMeshes) = 2
    /\ currentLOD = 1
    /\ terrainMesh = 1
    /\ lodMeshes[2].visible /\ ~lodMeshes[1].visible
    /\ lodSwitches = 1


(* the level a camera distance calls for: the first whose maxDistance is    *)
(* not below the distance, the last one when there is none                  *)
SelectedLevel(distance) ==
    IF \E i \in 1..lodLevels : distance <= lodDistances[i]
    THEN (CHOOSE i \in 1..lodLevels :
             /\ distance <= lodDistances[i]
             /\ \A j \in 1..(i - 1) : distance > lodDistances[j]) - 1
    ELSE lodLevels - 1

\* C26: the switch counter counts real switches: in every updateLOD call
\* whose selected level differs from currentLOD, stats.lodSwitches grows by
\* exactly one and currentLOD and terrainMesh become the selected level; in
\* every other updateLOD call the three are unchanged.
C26_CounterCountsSwitches ==
    [][(LODCallStep /\ lodCall'.op = "updateLOD") =>
          IF /\ lodCall'.acted
             /\ SelectedLevel(lodCall'.arg.distance) # currentLOD
          THEN /\ lodSwitches' = lodSwitches + 1
               /\ currentLOD' = SelectedLevel(lodCall'.arg.distance)
               /\ terrainMesh' = SelectedLevel(lodCall'.arg.distance)
          ELSE UNCHANGED <<lodSwitches, currentLOD, terrainMesh>>]_vars

\* C26 witness: updateLOD calls took the terrain to level 1 and back to
\* level 0, the last one for a camera at distance 1000; two switches are
\* counted.
C26_Witness ==
    /\ lodCall.op = "updateLOD"
    /\ lodCall.acted
    /\ lodCall.arg.distance = 1000
    /\ currentLOD = 0
    /\ terrainMesh = 0
    /\ lodSwitches = 2
    /\ tpc = "ready"

----------------------------------------------------------------------------
(* Properties of MapDataManager.dispose (specification Spec) *)

\* C27: dispose is final until the next load request: once dispose() has
\* returned, mapData stays null (so the spatial queries stay empty) for as
\* long as no loadMapData() call has been issued after it, also when a load
\* was in flight at the time of the dispose.
C27_DisposeFinal ==
    disposedQuiet => mapData = Null

----------------------------------------------------------------------------
(* Liveness of MapDataManager.loadMapData (specification SpecLive) *)

\* C28: every loadMapData() call eventually settles: given that the provider
\* call in flight terminates and timers fire, a caller that entered the
\* waiting branch returns after finitely many polls, whatever further
\* loadMapData() calls the other callers make.
C28_WaiterReturns ==
    \A c \in QueryCallers : (pc[c] = "waiting") ~> (pc[c] = "done")

----------------------------------------------------------------------------
(* Frame of the cache (specification SpecLoader) *)

\* C29: cache reads never extend an entry's life: a fetch served from the
\* cache leaves every entry's data and timestamp as they are, a fetch made
\* 30 minutes or more after an entry was written finds it invalid and calls
\* the provider however many hits came in between, and only a successful
\* provider fetch or clearCache changes the cache.
C29_CacheFrame ==
    [][/\ CallStep =>
             /\ cache' = cache
             /\ \A d \in Datasets :
                   (cache[d].kind = "entry" /\ now >= cache[d].timestamp + 30 * 60 * 1000)
                       => fetch'[d].pc = "inflight" /\ fetch'[d].network
       /\ cache' # cache =>
             \/ cache' = [d \in Datasets |-> NoEntry]
             \/ \E d \in Datasets :
                   /\ fetch[d].pc = "inflight" /\ fetch'[d].pc = "done"
                   /\ ~fetch'[d].failed
                   /\ cache' = [cache EXCEPT
                                   ![d] = [kind |-> "entry", data |-> fetch'[d].value,
                                           timestamp |-> now]]]_vars


\* C30: LOD bookkeeping stays consistent: once the meshes are generated and
\* until dispose, after any updateLOD and switchLOD calls, currentLOD is a
\* valid index into lodMeshes, terrainMesh is lodMeshes[currentLOD] and
\* lodMeshes[currentLOD] is the visible mesh.
C30_BookkeepingConsistent ==
    (tpc \in {"generated", "ready"} /\ ~disposed) =>
        /\ currentLOD \in 0..(Len(lodMeshes) - 1)
        /\ terrainMesh = currentLOD
        /\ \A i \in 1..Len(lodMeshes) : lodMeshes[i].visible <=> (i - 1 = currentLOD)

====
